---- MODULE Spec2Model ----
(***************************************************************************)
(* Model of the spreadsheet extraction-and-reconciliation pipeline of the  *)
(* process-xlsx routes (text-driven and image-driven): parseExcelToText,   *)
(* convertXlsxToPng, callGemini,                                           *)
(* extractStructures, JSON.parse, the STP filename reconciliation,         *)
(* renderStpFiles, buildProductionOrder and buildQuotation.                *)
(*                                                                         *)
(* Text is a sequence of atoms.  An atom is either one character that the  *)
(* code's regular expressions or JSON.parse look at (brackets, quotes,     *)
(* comma, colon, semicolon, slash, back-tick, blank, newline, a digit, a   *)
(* letter of a file name) or a whole word made of characters none of them  *)
(* looks at ("const", "type", "main_table_data_row", ...).                 *)
(***************************************************************************)
EXTENDS Integers, Sequences, FiniteSets, TLC

\* ------------------------------------------------------------------------
\* Characters
\* ------------------------------------------------------------------------
DQ == "\""
SQ == "'"
\* the back-tick character (written as a word: the lexer reserves the sign)
BT == "backtick"
SL == "/"
SC == ";"
CM == ","
CL == ":"
LB == "["
RB == "]"
LC == "{"
RC == "}"
SP == " "
NL == "\n"
EQ == "="

\* \s of the regular expressions, JSON white space, String.prototype.trim
Ws == {SP, NL}

Digits == {"0", "1", "2", "3", "4", "5", "6", "7", "8", "9"}

\* the optional language tag of a code fence
LangTags == {"javascript", "js", "python"}

\* String.prototype.toLowerCase, character by character
LowerChar(c) ==
  CASE c = "P" -> "p"
    [] c = "Q" -> "q"
    [] c = "X" -> "x"
    [] c = "S" -> "s"
    [] c = "L" -> "l"
    [] OTHER -> c

toLowerCase(s) == [i \in 1..Len(s) |-> LowerChar(s[i])]

\* String.prototype.startsWith
startsWith(n, p) == Len(p) <= Len(n) /\ SubSeq(n, 1, Len(p)) = p

MinOf(S) == CHOOSE x \in S : \A y \in S : x <= y

\* first index >= i of s that is not white space (Len(s)+1 when none)
SkipWs(s, i) ==
  CHOOSE j \in i..(Len(s) + 1) :
    /\ j > Len(s) \/ s[j] \notin Ws
    /\ \A k \in i..(j - 1) : s[k] \in Ws

\* last index <= i of s that is not white space (0 when none)
SkipWsBack(s, i) ==
  CHOOSE j \in 0..i :
    /\ j = 0 \/ s[j] \notin Ws
    /\ \A k \in (j + 1)..i : s[k] \in Ws

\* first index >= i of s that holds one of the characters C (0 when none)
IndexOf(s, C, i) ==
  IF \E j \in i..Len(s) : s[j] \in C
  THEN CHOOSE j \in i..Len(s) :
         s[j] \in C /\ \A k \in i..(j - 1) : s[k] \notin C
  ELSE 0

\* the subsequence of s at the indices i with keep[i], in order
Filter(s, keep) ==
  LET t == [i \in 1..Len(s) |-> <<s[i], keep[i]>>]
      u == SelectSeq(t, LAMBDA p : p[2])
  IN [i \in 1..Len(u) |-> u[i][1]]

\* ------------------------------------------------------------------------
\* JavaScript values as produced by JSON.parse
\* ------------------------------------------------------------------------
JStr(s) == [t |-> "str", s |-> s, kids |-> <<>>]
JNum(ds) == [t |-> "num", s |-> ds, kids |-> <<>>]
JNull == [t |-> "null", s |-> <<>>, kids |-> <<>>]
Undef == [t |-> "undef", s |-> <<>>, kids |-> <<>>]
JArr(elems) == [t |-> "arr", s |-> <<>>, kids |-> elems]
Mem(k, v) == [t |-> "mem", s |-> k, kids |-> <<v>>]
JObj(mems) == [t |-> "obj", s |-> <<>>, kids |-> mems]

\* o[k]: property read on an object (undefined when absent)
Get(o, k) ==
  IF o.t = "obj" /\ \E i \in 1..Len(o.kids) : o.kids[i].s = k
  THEN LET i == CHOOSE i \in 1..Len(o.kids) :
                  /\ o.kids[i].s = k
                  /\ \A j \in (i + 1)..Len(o.kids) : o.kids[j].s # k
       IN o.kids[i].kids[1]
  ELSE Undef

Has(o, k) == o.t = "obj" /\ \E i \in 1..Len(o.kids) : o.kids[i].s = k

\* o[k] = v on an object: overwrite in place, or append a new property
Put(o, k, v) ==
  IF Has(o, k)
  THEN JObj([i \in 1..Len(o.kids) |->
              IF o.kids[i].s = k THEN Mem(k, v) ELSE o.kids[i]])
  ELSE JObj(Append(o.kids, Mem(k, v)))

\* a[n] with the 0-based index n of the source
At(a, n) ==
  IF a.t = "arr" /\ n + 1 <= Len(a.kids) THEN a.kids[n + 1] ELSE Undef

\* a[n] = v on an array that has the index
SetAt(a, n, v) == JArr([a.kids EXCEPT ![n + 1] = v])

\* a.length of an array
Length(a) == Len(a.kids)

\* reading a property of null or undefined throws a TypeError
Nullish(v) == v.t \in {"null", "undef"}

IsZero(ds) == \A i \in 1..Len(ds) : ds[i] = "0"

\* ToBoolean
Truthy(v) ==
  CASE v.t = "str" -> v.s # <<>>
    [] v.t = "num" -> ~IsZero(v.s)
    [] v.t \in {"arr", "obj"} -> TRUE
    [] OTHER -> FALSE

\* String(v) for the primitives the model carries
String(v) ==
  CASE v.t \in {"str", "num"} -> v.s
    [] v.t = "null" -> <<"null">>
    [] v.t = "undef" -> <<"undefined">>
    [] v.t = "arr" -> <<"array">>
    [] OTHER -> <<"[object Object]">>

\* ------------------------------------------------------------------------
\* JSON.parse
\* ------------------------------------------------------------------------
Bad == [ok |-> FALSE, v |-> Undef, next |-> 0]
Good(v, n) == [ok |-> TRUE, v |-> v, next |-> n]

\* s[i] = DQ: index of the closing quote, 0 when the string is unterminated
CloseQuote(s, i) == IndexOf(s, {DQ}, i + 1)

\* last index of the run of digits that starts at i
DigitsEnd(s, i) ==
  CHOOSE j \in i..Len(s) :
    /\ j = Len(s) \/ s[j + 1] \notin Digits
    /\ \A k \in i..j : s[k] \in Digits

RECURSIVE ParseValue(_, _), ParseElems(_, _, _), ParseMembers(_, _, _)

ParseString(s, i) ==
  LET e == CloseQuote(s, i)
  IN IF e = 0 THEN Bad
     ELSE IF IndexOf(SubSeq(s, i + 1, e - 1), {NL}, 1) # 0 THEN Bad
     ELSE Good(JStr(SubSeq(s, i + 1, e - 1)), e + 1)

ParseValue(s, i0) ==
  LET i == SkipWs(s, i0)
  IN IF i > Len(s) THEN Bad
     ELSE IF s[i] = DQ THEN ParseString(s, i)
     ELSE IF s[i] \in Digits
          THEN LET e == DigitsEnd(s, i)
               IN IF s[i] = "0" /\ e > i THEN Bad
                  ELSE Good(JNum(SubSeq(s, i, e)), e + 1)
     ELSE IF s[i] = "null" THEN Good(JNull, i + 1)
     ELSE IF s[i] = LB
          THEN LET j == SkipWs(s, i + 1)
               IN IF j <= Len(s) /\ s[j] = RB THEN Good(JArr(<<>>), j + 1)
                  ELSE ParseElems(s, i + 1, <<>>)
     ELSE IF s[i] = LC
          THEN LET j == SkipWs(s, i + 1)
               IN IF j <= Len(s) /\ s[j] = RC THEN Good(JObj(<<>>), j + 1)
                  ELSE ParseMembers(s, i + 1, <<>>)
     ELSE Bad

ParseElems(s, i, acc) ==
  LET r == ParseValue(s, i)
  IN IF ~r.ok THEN Bad
     ELSE LET j == SkipWs(s, r.next)
          IN IF j > Len(s) THEN Bad
             ELSE IF s[j] = CM THEN ParseElems(s, j + 1, Append(acc, r.v))
             ELSE IF s[j] = RB THEN Good(JArr(Append(acc, r.v)), j + 1)
             ELSE Bad

ParseMembers(s, i0, acc) ==
  LET i == SkipWs(s, i0)
  IN IF i > Len(s) \/ s[i] # DQ THEN Bad
     ELSE LET k == ParseString(s, i)
          IN IF ~k.ok THEN Bad
             ELSE LET c == SkipWs(s, k.next)
                  IN IF c > Len(s) \/ s[c] # CL THEN Bad
                     ELSE LET r == ParseValue(s, c + 1)
                          IN IF ~r.ok THEN Bad
                             ELSE LET j == SkipWs(s, r.next)
                                      m == Append(acc, Mem(k.v.s, r.v))
                                  IN IF j > Len(s) THEN Bad
                                     ELSE IF s[j] = CM
                                          THEN ParseMembers(s, j + 1, m)
                                     ELSE IF s[j] = RC
                                          THEN Good(JObj(m), j + 1)
                                     ELSE Bad

\* the value, or a SyntaxError
JSONParse(s) ==
  LET r == ParseValue(s, 1)
  IN IF r.ok /\ SkipWs(s, r.next) > Len(s)
     THEN [ok |-> TRUE, v |-> r.v]
     ELSE [ok |-> FALSE, v |-> Undef]

\* ------------------------------------------------------------------------
\* extractStructures
\* ------------------------------------------------------------------------
\* the maximal run of back-ticks around index i, as <<first, last>>
TickRun(txt, i) ==
  <<CHOOSE r \in 1..i :
      /\ \A k \in r..i : txt[k] = BT
      /\ r = 1 \/ txt[r - 1] # BT,
    CHOOSE e \in i..Len(txt) :
      /\ \A k \in i..e : txt[k] = BT
      /\ e = Len(txt) \/ txt[e + 1] # BT>>

\* index i is one of the three back-ticks of a fence: the fences of a run
\* are matched from its left end, three at a time
FenceTick(txt, i) ==
  /\ txt[i] = BT
  /\ LET run == TickRun(txt, i)
     IN (i - run[1]) < 3 * ((run[2] - run[1] + 1) \div 3)

\* index i is the language tag that directly follows a fence
FenceTag(txt, i) ==
  /\ txt[i] \in LangTags
  /\ i > 1
  /\ txt[i - 1] = BT
  /\ FenceTick(txt, i - 1)
  /\ (i - TickRun(txt, i - 1)[1]) % 3 = 0

\* txt.replace(/```(?:javascript|js|python)?|```/g, '')
StripFences(txt) ==
  Filter(txt, [i \in 1..Len(txt) |-> ~FenceTick(txt, i) /\ ~FenceTag(txt, i)])

\* first index e >= i with txt[e] = close and txt[e+1] = ";" (0 when none):
\* the lazy [\s\S]*? followed by the closing bracket and the terminator
LazyClose(txt, close, i) ==
  IF \E e \in i..(Len(txt) - 1) : txt[e] = close /\ txt[e + 1] = SC
  THEN CHOOSE e \in i..(Len(txt) - 1) :
         /\ txt[e] = close /\ txt[e + 1] = SC
         /\ \A k \in i..(e - 1) : ~(txt[k] = close /\ txt[k + 1] = SC)
  ELSE 0

\* /const\s+NAME\s*=\s*(OPEN[\s\S]*?CLOSE);/ tried at index i: the capture
\* group as <<first, last>>, or <<0, 0>> when the pattern does not match at i
MatchAt(txt, name, open, close, i) ==
  IF ~(i + 1 <= Len(txt) /\ txt[i] = "const" /\ txt[i + 1] \in Ws)
  THEN <<0, 0>>
  ELSE LET j == SkipWs(txt, i + 1)
       IN IF j > Len(txt) \/ txt[j] # name THEN <<0, 0>>
          ELSE LET k == SkipWs(txt, j + 1)
               IN IF k > Len(txt) \/ txt[k] # EQ THEN <<0, 0>>
                  ELSE LET m == SkipWs(txt, k + 1)
                       IN IF m > Len(txt) \/ txt[m] # open THEN <<0, 0>>
                          ELSE LET e == LazyClose(txt, close, m + 1)
                               IN IF e = 0 THEN <<0, 0>> ELSE <<m, e>>

\* String.prototype.match without the g flag: the leftmost match
MatchFrom(txt, name, open, close) ==
  LET hits == {i \in 1..Len(txt) :
                 txt[i] = "const" /\ MatchAt(txt, name, open, close, i) # <<0, 0>>}
  IN IF hits = {} THEN <<0, 0>>
     ELSE MatchAt(txt, name, open, close, MinOf(hits))

\* index i lies in a line comment: on its line, at or after two slashes
InComment(s, i) ==
  /\ s[i] # NL
  /\ \E j \in 1..i :
       /\ s[j] = SL
       /\ j + 1 <= Len(s)
       /\ s[j + 1] = SL
       /\ \A k \in j..i : s[k] # NL

\* .replace(/\/\/.*$/gm, ''): from two slashes to the end of the line
StripComments(s) == Filter(s, [i \in 1..Len(s) |-> ~InComment(s, i)])

\* .replace(/'/g, '"')
SwapQuotes(s) == [i \in 1..Len(s) |-> IF s[i] = SQ THEN DQ ELSE s[i]]

\* the comma at index i is followed, after white space, by ] or }
CommaHit(s, i) ==
  /\ s[i] = CM
  /\ LET j == SkipWs(s, i + 1) IN j <= Len(s) /\ s[j] \in {RB, RC}

\* index i is white space between such a comma and its bracket
CommaGap(s, i) ==
  /\ s[i] \in Ws
  /\ LET p == SkipWsBack(s, i) IN p >= 1 /\ CommaHit(s, p)

\* .replace(/,\s*([\]}])/g, '$1')
StripTrailingCommas(s) ==
  Filter(s, [i \in 1..Len(s) |-> ~CommaHit(s, i) /\ ~CommaGap(s, i)])

\* .replace(/[;`]/g, '')
StripTerminators(s) == SelectSeq(s, LAMBDA c : c \notin {SC, BT})

\* String.prototype.trim
trim(s) == SubSeq(s, SkipWs(s, 1), SkipWsBack(s, Len(s)))

\* the repair pass of extractStructures
clean(jsStr) ==
  trim(StripTerminators(StripTrailingCommas(SwapQuotes(StripComments(jsStr)))))

\* extractStructures(txt): found = FALSE stands for the thrown Error
extractStructures(txt0) ==
  LET txt == StripFences(txt0)
      arrMatch == MatchFrom(txt, "excelLayoutData", LB, RB)
      objMatch == MatchFrom(txt, "quotationData", LC, RC)
  IN IF arrMatch = <<0, 0>> \/ objMatch = <<0, 0>>
     THEN [found |-> FALSE, arr |-> <<>>, obj |-> <<>>,
           arrCap |-> <<>>, objCap |-> <<>>]
     ELSE [found |-> TRUE,
           arr |-> clean(SubSeq(txt, arrMatch[1], arrMatch[2])),
           obj |-> clean(SubSeq(txt, objMatch[1], objMatch[2])),
           arrCap |-> SubSeq(txt, arrMatch[1], arrMatch[2]),
           objCap |-> SubSeq(txt, objMatch[1], objMatch[2])]

\* ------------------------------------------------------------------------
\* The text a completion may carry: the two literals the PROMPT asks for,
\* written in a style st = [q, tc, cmt, fence, talk]
\*   q     the quote character of keys and strings
\*   tc    a trailing comma before every closing bracket
\*   cmt   a line comment after the opening bracket of each literal
\*   fence the answer is wrapped in a code fence
\*   talk  commentary before and after the code
\* ------------------------------------------------------------------------
RECURSIVE Ser(_, _, _), SerList(_, _, _, _)

Ser(v, st, depth) ==
  LET note == IF st.cmt /\ depth = 0
              THEN <<SP, SL, SL, SP, "note", NL>> ELSE <<>>
      tc == IF st.tc /\ v.kids # <<>> THEN <<CM>> ELSE <<>>
  IN CASE v.t = "str" -> <<st.q>> \o v.s \o <<st.q>>
       [] v.t = "num" -> v.s
       [] v.t = "null" -> <<"null">>
       [] v.t = "arr" ->
            <<LB>> \o note \o SerList(v.kids, st, depth + 1, 1) \o tc \o <<RB>>
       [] v.t = "obj" ->
            <<LC>> \o note \o SerList(v.kids, st, depth + 1, 1) \o tc \o <<RC>>
       [] v.t = "mem" ->
            <<st.q>> \o v.s \o <<st.q, CL, SP>> \o Ser(v.kids[1], st, depth)
       [] OTHER -> <<"undefined">>

SerList(kids, st, depth, i) ==
  IF i > Len(kids) THEN <<>>
  ELSE Ser(kids[i], st, depth)
       \o (IF i < Len(kids) THEN <<CM, SP>> ELSE <<>>)
       \o SerList(kids, st, depth, i + 1)

ArrStatement(l, st) ==
  <<"const", SP, "excelLayoutData", SP, EQ, SP>> \o Ser(l, st, 0) \o <<SC, NL>>

ObjStatement(q, st) ==
  <<"const", SP, "quotationData", SP, EQ, SP>> \o Ser(q, st, 0) \o <<SC, NL>>

Render(l, q, st) ==
  (IF st.talk THEN <<"Here", SP, "you", SP, "go", CL, NL>> ELSE <<>>)
  \o (IF st.fence THEN <<BT, BT, BT, "javascript", NL>> ELSE <<>>)
  \o ArrStatement(l, st) \o <<NL>> \o ObjStatement(q, st)
  \o (IF st.fence THEN <<BT, BT, BT, NL>> ELSE <<>>)
  \o (IF st.talk THEN <<"Done", NL>> ELSE <<>>)

Strict == [q |-> DQ, tc |-> FALSE, cmt |-> FALSE, fence |-> FALSE, talk |-> FALSE]

\* the style of the PROMPT's own template, wrapped as chat models wrap code
Loose == [q |-> SQ, tc |-> TRUE, cmt |-> TRUE, fence |-> TRUE, talk |-> TRUE]

\* ------------------------------------------------------------------------
\* Property names and fixed strings of the two structures
\* ------------------------------------------------------------------------
kType == <<"type">>
kData == <<"data">>
kHeaders == <<"headers">>
kCells == <<"cells">>
kText == <<"text">>
kMerge == <<"merge_cells">>
kHeight == <<"height">>
kColLetter == <<"col_letter">>
kValue == <<"value">>
kQuoteNumber == <<"quote_number">>
kCompany == <<"company_info">>
kPartyA == <<"party_a">>
kPartyB == <<"party_b">>
kProducts == <<"products">>
\* the product-line keys, romanised: xuhao = sequence number, lingjiantupian
\* = part image, lingjianming = part name, biaomian = surface, caizhi =
\* material, shuliang = quantity, beizhu = notes
kSeq == <<"xuhao">>
kImg == <<"lingjiantupian">>
kName == <<"lingjianming">>
kSurface == <<"biaomian">>
kMaterial == <<"caizhi">>
kQty == <<"shuliang">>
kNotes == <<"beizhu">>
\* danjia = unit price, heji = line total
kPrice == <<"danjia">>
kTotal == <<"heji">>

TitleRow == JStr(<<"title_row">>)
HeaderDetailRow == JStr(<<"header_detail_row">>)
TableHeaderRow == JStr(<<"main_table_header_row">>)
TableDataRow == JStr(<<"main_table_data_row">>)

\* the image placeholder of a product line in the PROMPT, "[tupian]"
Placeholder == JStr(<<LB, "tupian", RB>>)

\* ------------------------------------------------------------------------
\* Reconciliation of STP file names with parts (POST, "Map STP filenames")
\* ------------------------------------------------------------------------
\* stpInfo.map(f => f.name.toLowerCase())
stpNamesOf(info) == [i \in 1..Len(info) |-> toLowerCase(info[i])]

\* a find that returns the last hit
find_last(names, partNum) ==
  LET hits == {i \in 1..Len(names) : startsWith(names[i], partNum)}
  IN IF hits = {} THEN Undef
     ELSE JStr(names[CHOOSE i \in hits : \A j \in hits : j <= i])

\* stpNames.find(n => n.startsWith(partNum)): the first hit, or undefined
find(names, partNum) ==
  LET hits == {i \in 1..Len(names) : startsWith(names[i], partNum)}
  IN IF hits = {} THEN Undef ELSE JStr(names[MinOf(hits)])

\* an identifier taken without the fallback to the empty string
partNumOf_noFallback(x) == toLowerCase(String(x))

\* String(x || "").toLowerCase()
partNumOf(x) == toLowerCase(String(IF Truthy(x) THEN x ELSE JStr(<<>>)))

\* the body of the loop over the layout rows
ReconcileItem(item, names) ==
  LET data == Get(item, kData)
  IN IF Get(item, kType) = TableDataRow /\ data.t = "arr" /\ Length(data) > 2
     THEN LET match == find(names, partNumOf(At(data, 2)))
          IN IF Truthy(match)
             THEN Put(item, kData, SetAt(data, 1, match))
             ELSE item
     ELSE item

\* the body of the loop over quotation.products
ReconcileProduct(p, names) ==
  LET match == find(names, partNumOf(Get(p, kName)))
  IN IF Truthy(match) THEN Put(p, kImg, match) ELSE p

\* item.type of a null row, quotation.products of a null quotation and
\* p[...] of a null product throw a TypeError
ReconcileThrows(l, q) ==
  \/ \E i \in 1..Length(l) : Nullish(l.kids[i])
  \/ Nullish(q)
  \/ /\ Get(q, kProducts).t = "arr"
     /\ \E i \in 1..Length(Get(q, kProducts)) : Nullish(Get(q, kProducts).kids[i])

ReconcileLayout(l, names) ==
  JArr([i \in 1..Length(l) |-> ReconcileItem(l.kids[i], names)])

ReconcileQuotation(q, names) ==
  LET ps == Get(q, kProducts)
  IN IF ps.t = "arr"
     THEN Put(q, kProducts,
              JArr([i \in 1..Length(ps) |-> ReconcileProduct(ps.kids[i], names)]))
     ELSE q

\* ------------------------------------------------------------------------
\* renderStpFiles: the map from the uploaded name to the rendered image.
\* ok is the set of positions of stpInfo whose render returned an image.
\* ------------------------------------------------------------------------
\* a renderer that gives up on every file as soon as one of them fails
renderStpFiles_allOrNothing(info, url, ok) ==
  IF ~url \/ ok # 1..Len(info) THEN {} ELSE {info[i] : i \in ok}

renderStpFiles(info, url, ok) ==
  IF ~url THEN {} ELSE {info[i] : i \in ok}

\* a lookup that finds bytes under every key
Lookup_always(images, key) == TRUE

\* images[key]: a property read with the key converted to a string
Lookup(images, key) == String(key) \in images

\* ------------------------------------------------------------------------
\* buildProductionOrder: one emitted row per layout item
\* ------------------------------------------------------------------------
NoImage == <<"no image">>

ProdItemThrows(item) ==
  \/ Nullish(item)
  \/ Get(item, kType) = TitleRow /\ Get(item, kMerge).t # "str"
  \/ /\ Get(item, kType) = HeaderDetailRow
     /\ \/ Get(item, kCells).t # "arr"
        \/ \E i \in 1..Length(Get(item, kCells)) : Nullish(Get(item, kCells).kids[i])
  \/ /\ Get(item, kType) = TableDataRow
     /\ Nullish(Get(item, kData))

ProdRow(item, images) ==
  LET type == Get(item, kType)
      data == Get(item, kData)
      values ==
        CASE type = TitleRow -> JArr(<<Get(item, kText)>>)
          [] type = HeaderDetailRow -> Get(item, kCells)
          [] type \in {TableHeaderRow, TableDataRow} ->
               IF Truthy(Get(item, kHeaders)) THEN Get(item, kHeaders) ELSE data
          [] OTHER -> Undef
      key == At(data, 1)
      image ==
        IF type = TableDataRow /\ Truthy(key) /\ Lookup(images, key)
        THEN String(key) ELSE NoImage
  \* row.height = Math.max(row.height || 18, 80) is followed, after the
  \* switch, by row.height = item.height
  IN [values |-> values, image |-> image, height |-> Get(item, kHeight)]

buildProductionOrder(l, images) ==
  IF \E i \in 1..Length(l) : ProdItemThrows(l.kids[i])
  THEN [ok |-> FALSE, rows |-> <<>>]
  ELSE [ok |-> TRUE, rows |-> [i \in 1..Length(l) |-> ProdRow(l.kids[i], images)]]

\* ------------------------------------------------------------------------
\* buildQuotation: the product rows between the header and the totals row
\* ------------------------------------------------------------------------
QuoteThrows(q) ==
  \/ Nullish(q)
  \/ Nullish(Get(q, kCompany))
  \/ Get(q, kProducts).t # "arr"
  \/ \E i \in 1..Length(Get(q, kProducts)) : Nullish(Get(q, kProducts).kids[i])

\* the number a sequence of digits denotes
RECURSIVE NumVal(_)
NumVal(ds) ==
  IF ds = <<>> THEN 0
  ELSE LET d == ds[Len(ds)]
           v == CHOOSE n \in 0..9 :
                  <<"0", "1", "2", "3", "4", "5", "6", "7", "8", "9">>[n + 1] = d
       IN 10 * NumVal(SubSeq(ds, 1, Len(ds) - 1)) + v

NaN == [t |-> "nan", s |-> <<>>, kids |-> <<>>]

\* Math.max(a, b): NaN when an argument is undefined
MathMax(a, b) ==
  IF a.t # "num" \/ b.t # "num" THEN NaN
  ELSE IF NumVal(a.s) >= NumVal(b.s) THEN a ELSE b

\* the height of a row returned by ws.addRow, which this code has not set:
\* the library leaves it undefined or gives its default
AddRowHeights == {Undef, JNum(<<"1", "5">>)}

\* h0 is the height of the row as addRow returned it
QuoteRow(product, images, h0) ==
  LET key == IF Truthy(Get(product, kImg)) THEN Get(product, kImg)
             ELSE Get(product, kName)
      found == Lookup(images, key)
  IN [values |-> JArr(<<Get(product, kSeq), Get(product, kImg),
                        Get(product, kName), Get(product, kSurface),
                        Get(product, kMaterial), Get(product, kQty),
                        JStr(<<>>), JStr(<<>>), Get(product, kNotes)>>),
      image |-> IF found THEN String(key) ELSE NoImage,
      height |-> IF found THEN MathMax(h0, JNum(<<"8", "0">>))
                 ELSE JNum(<<"1", "8">>)]

\* the title row and the six company rows precede the table header
headerStartRow == 8

\* an emitter that adds the product rows from the last product to the first
buildQuotation_reversed(q, images, h0) ==
  IF QuoteThrows(q)
  THEN [ok |-> FALSE, rows |-> <<>>]
  ELSE LET n == Length(Get(q, kProducts))
       IN [ok |-> TRUE,
           rows |-> [i \in 1..n |->
                       QuoteRow(Get(q, kProducts).kids[n + 1 - i], images, h0)],
           numbers |-> [i \in 1..n |-> headerStartRow + i],
           header |-> headerStartRow,
           total |-> headerStartRow + n + 1]

\* rows holds the product rows, numbers their row numbers in the sheet:
\* every ws.addRow appends below the last row
buildQuotation(q, images, h0) ==
  IF QuoteThrows(q)
  THEN [ok |-> FALSE, rows |-> <<>>]
  ELSE LET n == Length(Get(q, kProducts))
       IN [ok |-> TRUE,
           rows |-> [i \in 1..n |->
                       QuoteRow(Get(q, kProducts).kids[i], images, h0)],
           numbers |-> [i \in 1..n |-> headerStartRow + i],
           header |-> headerStartRow,
           total |-> headerStartRow + n + 1]

\* ------------------------------------------------------------------------
\* parseExcelToText
\* A sheet is a function from the addresses <<row, col>> of its cells that
\* hold a value to that value; every other cell reads as null.  A cell value
\* is a primitive (kind "prim", its text in text) or an object (kind "obj")
\* with the properties named in keys.
\* ------------------------------------------------------------------------
maxRow == 200
maxCol == 50
\* the number of rows the look-ahead checks, and of empty rows that stop it
lookAhead == 10

Prim(t) ==
  [kind |-> "prim", keys |-> {}, text |-> t, result |-> <<>>, runs |-> <<>>,
   formula |-> <<>>]
Obj(keys, text, result, runs, formula) ==
  [kind |-> "obj", keys |-> keys, text |-> text, result |-> result,
   runs |-> runs, formula |-> formula]

RECURSIVE Concat(_)
Concat(ss) == IF ss = <<>> THEN <<>> ELSE Head(ss) \o Concat(Tail(ss))

\* cell.value !== null && cell.value !== undefined && cell.value !== ''
NonNull(v) == ~(v.kind = "prim" /\ v.text = <<>>)

\* the branches with the formula test ahead of the result test
CellText_formulaFirst(v) ==
  IF v.kind = "obj"
  THEN IF "text" \in v.keys THEN v.text
       ELSE IF "formula" \in v.keys THEN <<"FORMULA:", SP>> \o v.formula
       ELSE IF "result" \in v.keys THEN v.result
       ELSE IF "richText" \in v.keys THEN Concat(v.runs)
       ELSE <<"{json}">>
  ELSE v.text

\* the branches that flatten a cell value to cellValue
CellText(v) ==
  IF v.kind = "obj"
  THEN IF "text" \in v.keys THEN v.text
       ELSE IF "result" \in v.keys THEN v.result
       ELSE IF "richText" \in v.keys THEN Concat(v.runs)
       ELSE IF "formula" \in v.keys THEN <<"FORMULA:", SP>> \o v.formula
       ELSE <<"{json}">>
  ELSE v.text

\* the cell is written into the row's line
Shown(v) == NonNull(v) /\ trim(CellText(v)) # <<>>

\* the cells of row r that the column loop finds with a value
RowCells(sheet, r) ==
  {a \in DOMAIN sheet : a[1] = r /\ a[2] \in 1..maxCol}

hasRowData(sheet, r) == \E a \in RowCells(sheet, r) : Shown(sheet[a])

hasDataInCheckRow(sheet, r) == \E a \in RowCells(sheet, r) : NonNull(sheet[a])

\* hasAnyData once the rows 1..r are scanned
hasAnyDataAt(sheet, r) ==
  \E a \in DOMAIN sheet : a[1] \in 1..r /\ a[2] \in 1..maxCol /\ Shown(sheet[a])

\* a look-ahead without the checkRow <= maxRow condition
LookAheadLast_noCeiling(rowNum) == rowNum + lookAhead

\* the last row the look-ahead from rowNum may check
LookAheadLast(rowNum) ==
  IF rowNum + lookAhead <= maxRow THEN rowNum + lookAhead ELSE maxRow

\* the rows of the look-ahead window that hold a value
LookAheadHits(sheet, rowNum) ==
  {c \in (rowNum + 1)..LookAheadLast(rowNum) : hasDataInCheckRow(sheet, c)}

\* emptyRowCount when the look-ahead loop from rowNum ends
emptyRowCount(sheet, rowNum) ==
  LET hits == LookAheadHits(sheet, rowNum)
  IN IF hits = {}
     THEN IF LookAheadLast(rowNum) > rowNum THEN LookAheadLast(rowNum) - rowNum
          ELSE 0
     ELSE MinOf(hits) - rowNum - 1

\* the last row the look-ahead from rowNum reads (rowNum when it reads none)
LookAheadRead(sheet, rowNum) ==
  LET hits == LookAheadHits(sheet, rowNum)
  IN IF hits = {}
     THEN IF LookAheadLast(rowNum) > rowNum THEN LookAheadLast(rowNum)
          ELSE rowNum
     ELSE MinOf(hits)

\* the look-ahead runs at rowNum
LooksAhead(sheet, rowNum) ==
  hasAnyDataAt(sheet, rowNum) /\ ~hasRowData(sheet, rowNum)

\* the row loop leaves at rowNum through the break
Breaks(sheet, rowNum) ==
  LooksAhead(sheet, rowNum) /\ emptyRowCount(sheet, rowNum) >= lookAhead

\* the last value of rowNum for which the loop body runs
lastScanned(sheet) ==
  LET stops == {r \in 1..maxRow : Breaks(sheet, r)}
  IN IF stops = {} THEN maxRow ELSE MinOf(stops)

\* the cells from the last column to the first
RECURSIVE SortByCol_descending(_)
SortByCol_descending(A) ==
  IF A = {} THEN <<>>
  ELSE LET a == CHOOSE x \in A : \A y \in A : x[2] >= y[2]
       IN <<a>> \o SortByCol_descending(A \ {a})

\* the cells of one row line, in column order
RECURSIVE SortByCol(_)
SortByCol(A) ==
  IF A = {} THEN <<>>
  ELSE LET a == CHOOSE x \in A : \A y \in A : x[2] <= y[2]
       IN <<a>> \o SortByCol(A \ {a})

RowLine(sheet, r) ==
  LET shown == {a \in RowCells(sheet, r) : Shown(sheet[a])}
      order == SortByCol(shown)
  IN [row |-> r,
      cells |-> [i \in 1..Len(order) |->
                   [address |-> order[i], text |-> trim(CellText(sheet[order[i]]))]]]

RECURSIVE SortAsc(_)
SortAsc(R) ==
  IF R = {} THEN <<>>
  ELSE LET r == MinOf(R) IN <<r>> \o SortAsc(R \ {r})

\* what the loop over one worksheet adds to textOutput, and the highest row
\* and column it reads through getRow and getCell
ScanSheet(sheet) ==
  LET last == lastScanned(sheet)
      rows == SortAsc({a[1] : a \in {b \in DOMAIN sheet :
                                       /\ b[1] \in 1..last
                                       /\ b[2] \in 1..maxCol
                                       /\ Shown(sheet[b])}})
      ahead == {LookAheadRead(sheet, r) :
                  r \in {q \in 1..last : LooksAhead(sheet, q)}}
  IN [lines |-> [i \in 1..Len(rows) |-> RowLine(sheet, rows[i])],
      noData |-> ~hasAnyDataAt(sheet, last),
      last |-> last,
      readRow |-> CHOOSE m \in ahead \cup {last} :
                    \A x \in ahead \cup {last} : x <= m,
      readCol |-> maxCol]

\* ------------------------------------------------------------------------
\* Inputs: uploads and completions
\* ------------------------------------------------------------------------
\* at most this many cells with a value in one sheet
MaxCells == 2

\* rows around the look-ahead window and around the row ceiling, columns
\* around the column ceiling
CellAddresses ==
  {<<1, 50>>, <<1, 51>>, <<12, 1>>, <<13, 1>>, <<199, 1>>, <<200, 1>>, <<201, 1>>}

Blanks == Prim(<<SP>>)
FormulaOnly == Obj({"formula"}, <<>>, <<>>, <<>>, <<"A1+B1">>)
FormulaResult == Obj({"formula", "result"}, <<>>, <<"7">>, <<>>, <<"A1+B1">>)

CellValues ==
  {Prim(<<"x">>), Prim(<<>>), Blanks, FormulaOnly, FormulaResult,
   Obj({"richText"}, <<>>, <<>>, <<<<SP, "x">>, <<"y", SP>>>>, <<>>),
   Obj({"text", "hyperlink"}, <<"x">>, <<>>, <<>>, <<>>),
   Obj({"error"}, <<>>, <<>>, <<>>, <<>>)}

SheetSet ==
  UNION {[A -> CellValues] :
           A \in {B \in SUBSET CellAddresses : Cardinality(B) <= MaxCells}}

NoBytes == [valid |-> FALSE, sheets |-> <<>>]
Book(sheets) == [valid |-> TRUE, sheets |-> sheets]

\* the specification sheet of the end-to-end scenario: a header row and one
\* part row
SampleSheet ==
  [a \in {<<1, 1>>, <<1, 2>>, <<2, 1>>, <<2, 2>>} |->
     CASE a = <<1, 1>> -> Prim(<<"part">>)
       [] a = <<1, 2>> -> Prim(<<"qty">>)
       [] a = <<2, 1>> -> Prim(<<"P", "1">>)
       [] OTHER -> FormulaResult]

\* contents of an uploaded file: a workbook, or bytes that are no workbook
UploadedBooks == {NoBytes, Book(<<SampleSheet>>)}

\* workbooks for the normalizer alone
NormBooks ==
  {Book(<<sh>>) : sh \in SheetSet}
  \cup {Book(<<SampleSheet, sh>>) : sh \in {z \in SheetSet : Cardinality(DOMAIN z) = 0}}

NoReads == [row |-> 0, col |-> 0]

\* at most this many STP files in one upload
MaxStp == 2

\* names of uploaded STP files: lower case, upper case, and the empty name
\* (which cannot be written into the session directory)
StpNameSet == {<<"p", "1", "x">>, <<"P", "1">>, <<>>}

RECURSIVE SeqsUpTo(_, _)
SeqsUpTo(S, n) ==
  IF n = 0 THEN {<<>>}
  ELSE LET shorter == SeqsUpTo(S, n - 1)
       IN shorter \cup {Append(q, x) : q \in {r \in shorter : Len(r) = n - 1}, x \in S}

StpUploadSet == SeqsUpTo(StpNameSet, MaxStp)

NoFile == [given |-> FALSE, name |-> <<>>]
FileSet == {NoFile,
            [given |-> TRUE, name |-> <<"spec", ".xls">>],
            [given |-> TRUE, name |-> <<"spec", ".xlsx">>]}

\* a test that only compares the lengths
endsWith_lengthOnly(n, e) == Len(e) <= Len(n)

\* String.prototype.endsWith
endsWith(n, e) == Len(e) <= Len(n) /\ SubSeq(n, Len(n) - Len(e) + 1, Len(n)) = e

One == JNum(<<"1">>)
Word(w) == JStr(<<w>>)

\* part identifiers the completion may give: mixed case, a bare prefix, one
\* that matches no file, the empty string and null
PartIds == {JStr(<<"P", "1">>), JStr(<<"p">>), JStr(<<"q">>), JStr(<<>>), JNull}

\* the rows of the PROMPT's layout template
DataRow(values) ==
  JObj(<<Mem(kType, TableDataRow), Mem(kData, JArr(values)),
         Mem(kHeight, JNum(<<"2", "2">>))>>)

DataRow9(pid) ==
  DataRow(<<One, JStr(<<>>), pid, Word("name"), Word("spec"), Word("6061"),
            JNum(<<"2", "0">>), JStr(<<>>), Word("anodise")>>)

Title(mems) ==
  JObj(<<Mem(kType, TitleRow)>> \o mems \o <<Mem(kHeight, JNum(<<"3", "0">>))>>)

TitleFull ==
  Title(<<Mem(kText, Word("order")), Mem(kMerge, JStr(<<"A1", CL, "I1">>))>>)

HeaderDetail(mems) ==
  JObj(<<Mem(kType, HeaderDetailRow)>> \o mems \o <<Mem(kHeight, JNum(<<"2", "2">>))>>)

HeaderDetailFull ==
  HeaderDetail(<<Mem(kCells,
     JArr(<<JObj(<<Mem(kColLetter, Word("A")), Mem(kValue, Word("no"))>>)>>))>>)

TableHeader ==
  JObj(<<Mem(kType, TableHeaderRow),
         Mem(kHeaders, JArr(<<Word("h1"), Word("h2"), Word("h3"), Word("h4"),
                              Word("h5"), Word("h6"), Word("h7"), Word("h8"),
                              Word("h9")>>)),
         Mem(kHeight, JNum(<<"2", "5">>))>>)

LayoutSet ==
  {JArr(<<DataRow9(pid)>>) : pid \in PartIds}
  \cup {JArr(<<TitleFull, HeaderDetailFull, TableHeader, DataRow9(JStr(<<"P", "1">>))>>),
        JArr(<<DataRow9(JStr(<<"q">>)), DataRow9(JStr(<<"p">>))>>),
        JArr(<<DataRow(<<One, JStr(<<>>), JStr(<<"P", "1">>)>>)>>),
        JArr(<<DataRow(<<One, JStr(<<>>)>>)>>),
        JArr(<<Title(<<Mem(kMerge, JStr(<<"A1", CL, "I1">>))>>)>>),
        JArr(<<Title(<<Mem(kText, Word("order"))>>)>>),
        JArr(<<HeaderDetail(<<>>)>>),
        JArr(<<JObj(<<Mem(kType, Word("footer_row")), Mem(kHeight, One)>>)>>),
        JArr(<<JNull>>),
        JArr(<<>>)}

Product(mems) ==
  JObj(<<Mem(kSeq, One), Mem(kImg, Placeholder)>> \o mems
       \o <<Mem(kSurface, Word("anodise")), Mem(kMaterial, Word("6061")),
            Mem(kQty, JNum(<<"2", "0">>)), Mem(kNotes, JStr(<<>>))>>)

Company == JObj(<<Mem(kPartyA, Word("A")), Mem(kPartyB, Word("B"))>>)

Quotation(products) ==
  JObj(<<Mem(kQuoteNumber, Word("Q7")), Mem(kCompany, Company),
         Mem(kProducts, products)>>)

QuotationSet ==
  {Quotation(JArr(<<Product(<<Mem(kName, pid)>>)>>)) :
      pid \in {JStr(<<"P", "1">>), JStr(<<"q">>)}}
  \cup {Quotation(JArr(<<Product(<<Mem(kName, JStr(<<"p">>))>>),
                           Product(<<Mem(kPrice, JStr(<<"9">>))>>)>>)),
        Quotation(JArr(<<JNull>>)),
        JObj(<<Mem(kQuoteNumber, Word("Q7")), Mem(kCompany, Company)>>),
        JObj(<<Mem(kQuoteNumber, Word("Q7")), Mem(kProducts, JArr(<<>>))>>)}

\* completions that carry both literals
Answers ==
  {[text |-> Render(l, q, Loose), denoted |-> <<l, q>>] :
      l \in LayoutSet, q \in QuotationSet}
  \cup {[text |-> Render(l, q, Strict), denoted |-> <<l, q>>] :
      l \in {JArr(<<DataRow9(JStr(<<"P", "1">>))>>)}, q \in QuotationSet}

L1 == JArr(<<DataRow9(JStr(<<"P", "1">>))>>)
Q1 == Quotation(JArr(<<Product(<<Mem(kName, JStr(<<"P", "1">>))>>)>>))

\* completions in which a literal is missing, unterminated or not JSON
Misfits ==
  {[text |-> t, denoted |-> <<>>] : t \in
     {<<"Sorry", NL>>,
      ArrStatement(L1, Loose),
      ObjStatement(Q1, Loose),
      ArrStatement(L1, Loose) \o <<"const", SP, "quotationData", SP, EQ, SP>>
        \o Ser(Q1, Loose, 0) \o <<NL>>,
      ArrStatement(L1, Loose) \o <<"const", SP, "quotationData", SP, EQ, SP,
        LC, "products", CL, SP, LB, RB, RC, SC, NL>>,
      <<"const", SP, "excelLayoutData", SP, EQ, SP, LB, "TBD", RB, SC, NL>>
        \o ObjStatement(Q1, Loose)}}

Completions == Answers \cup Misfits

\* at most this many characters in a string of a literal given to the
\* repair pass
MaxStrLen == 2

\* free text: a letter, an apostrophe, a slash, a semicolon, a back-tick, a
\* comma, a closing bracket, a blank
ContentAtoms == {"a", SQ, SL, SC, BT, CM, RB, SP}

ContentSet == SeqsUpTo(ContentAtoms, MaxStrLen)

Styles ==
  {Strict, Loose,
   [Strict EXCEPT !.q = SQ],
   [Strict EXCEPT !.tc = TRUE],
   [Strict EXCEPT !.cmt = TRUE],
   [Strict EXCEPT !.fence = TRUE, !.talk = TRUE]}

\* a literal in style st denotes its value only when no string holds the
\* quote character of the style (the model has no escapes)
Quotable(str, st) == \A i \in 1..Len(str) : str[i] # st.q

LayoutOf(str) == JArr(<<JObj(<<Mem(kData, JArr(<<One, JStr(str)>>))>>)>>)
QuotationOf(str) ==
  JObj(<<Mem(kProducts, JArr(<<JObj(<<Mem(kNotes, JStr(str))>>)>>))>>)

\* completions for the repair pass alone
RepairInputs ==
  UNION {{[text |-> Render(LayoutOf(str), QuotationOf(str), st),
           denoted |-> <<LayoutOf(str), QuotationOf(str)>>] :
             st \in {x \in Styles : Quotable(str, x)}} : str \in ContentSet}
  \cup Misfits

\* ------------------------------------------------------------------------
\* State of one process-xlsx request (POST)
\* ------------------------------------------------------------------------
VARIABLES
  pc,                  \* the statement of POST that runs next
  route,               \* the deployed route.ts: "text" (part_002) or "image" (part_000)
  GEMINI_API_KEY,      \* process.env.GEMINI_API_KEY is set
  PYTHON_RENDERER_URL, \* process.env.PYTHON_RENDERER_URL is set
  SOFFICE_PATH,        \* process.env.SOFFICE_PATH is set
  PDFTOPPM_PATH,       \* process.env.PDFTOPPM_PATH is set
  sessionDir,          \* the session directory of the request exists
  stream,              \* chunk.text of every chunk of the completion stream
  pos,                 \* number of chunks the for await loop has consumed
  out,                 \* the accumulator of callGemini
  calls,               \* invocations of the external capabilities so far
  file,                \* fd.get("file")
  workbook,            \* the content of the uploaded file
  stpUploads,          \* fd.getAll("stpFiles"): the names, in upload order
  written,             \* names written into the session directory, in order
  stpInfo,             \* names of the STP files saved for rendering
  excelText,           \* the transcript returned by parseExcelToText
  cellReads,           \* highest row and column read through getRow/getCell
  rawOutput,           \* the text returned by callGemini
  denoted,             \* <<layout, quotation>> the completion's literals denote
  arrJS, objJS,        \* the repaired literals returned by extractStructures
  layout, quotation,   \* the values returned by JSON.parse, later reconciled
  renderOk,            \* positions of stpInfo whose render returned an image
  imageMap,            \* keys of the map returned by renderStpFiles
  prodBuf, quoteBuf,   \* the emitted workbooks
  response,            \* the response of the request
  cleanup              \* the deletion of the session directory is scheduled

\* the upload directory shared by all requests of the process-xlsx route
VARIABLES
  sess,                \* per concurrent request: position, slug, uploads
  dirs,                \* the session directories that exist in UPLOAD_DIR
  files                \* the files on disk: path, who wrote it and what

sessVars == <<sess, dirs, files>>

\* the images GET route
VARIABLES
  imgPc,               \* the statement of GET that runs next
  imgSlug, imgName,    \* params.slug and params.filename, as text
  imgDisk,             \* the files below the temporary directory
  imgResp              \* the response: status and the path of the file served

imgVars == <<imgPc, imgSlug, imgName, imgDisk, imgResp>>

\* the client components, each with its React state and its calls in flight
VARIABLES
  xlsView,             \* ExcelViewer
  pptView,             \* PowerPointViewer
  stpView              \* StpViewer

viewVars == <<xlsView, pptView, stpView>>

\* the state outside the single request followed by POST's actions
sideVars == <<sessVars, imgVars, viewVars>>

postVars == <<pc, route, GEMINI_API_KEY, PYTHON_RENDERER_URL, SOFFICE_PATH,
              PDFTOPPM_PATH, sessionDir, stream, pos, out, calls, file, workbook, stpUploads,
              written, stpInfo, excelText, cellReads, rawOutput, denoted, arrJS, objJS, layout,
              quotation, renderOk, imageMap, prodBuf, quoteBuf, response, cleanup>>

vars == <<postVars, sideVars>>

reqVars == <<file, workbook, stpUploads>>
normVars == <<excelText, cellReads>>
envVars == <<route, GEMINI_API_KEY, PYTHON_RENDERER_URL, SOFFICE_PATH, PDFTOPPM_PATH>>
streamVars == <<stream, pos, out>>
textVars == <<rawOutput, denoted, arrJS, objJS>>
docVars == <<layout, quotation>>
outVars == <<renderOk, imageMap, prodBuf, quoteBuf>>

NoResponse == [status |-> 0, error |-> "", prod |-> FALSE, quote |-> FALSE, raw |-> FALSE]
NoBook == [ok |-> FALSE, rows |-> <<>>]

ErrorResponse(status, msg) ==
  [status |-> status, error |-> msg, prod |-> FALSE, quote |-> FALSE, raw |-> FALSE]

MsgConfig == "Missing server configuration."
MsgInvalid == "Invalid file. Upload '.xlsx'."
MsgNotFound == "Failed to extract required data structures from Gemini output."
\* the messages of errors thrown by the runtime and by libraries
MsgSyntax == "SyntaxError: Unexpected token in JSON"
MsgType == "TypeError: Cannot read properties of undefined"
MsgWorkbook == "Error: file is not a workbook"
MsgFetch == "Error: fetch failed"

NoCalls == [gemini |-> 0, convert |-> 0, render |-> <<>>]

\* the concurrent requests of the upload directory
Requests == {1, 2}

NoSession == [pc |-> "idle", slug |-> "", stps |-> <<>>, k |-> 0, got |-> <<>>]

NoImgResp == [status |-> 0, served |-> <<>>]

\* nothing but the request followed by POST's actions is going on
\* null in a piece of component state, and an object URL
NoError == "null"
NoLink == [n |-> 0, what |-> "null"]
NoRes == [ok |-> FALSE, status |-> 0, json |-> FALSE, body |-> "null"]

\* file names of the upload UI, character by character
DotXlsx == <<".", "x", "l", "s", "x">>
DotXls == <<".", "x", "l", "s">>
DotStp == <<".", "s", "t", "p">>

\* ExcelViewer after its first render: useState's initial values, and
\* runPipeline not running
XlsMounted ==
  [file |-> <<"s">> \o DotXlsx, stpFiles |-> <<>>, loading |-> TRUE, err |-> NoError, processing |-> FALSE,
   prodLink |-> NoLink, quoteLink |-> NoLink, raw |-> "null",
   at |-> "idle", res |-> NoRes, runs |-> 0]

\* the presentations and CAD files a viewer can be handed
PptFiles == {"a.pptx", "b.pptx"}
StpFiles == {"a.stp", "b.stp"}

\* one run of a viewer's effect: the file it posts and where its async
\* function stands; for StpViewer also the closure variables
\* objectUrlsToRevoke and currentZipBlobUrlForCleanup and whether the
\* effect's cleanup has run
Effect(f) ==
  [file |-> f, at |-> "fetch", cleaned |-> FALSE, urls |-> {}, zip |-> NoLink]

\* PowerPointViewer and StpViewer after the first render and its effect
PptMounted ==
  [file |-> "a.pptx", loading |-> TRUE, error |-> NoError, slides |-> <<>>,
   effects |-> <<Effect("a.pptx")>>]

StpMounted ==
  [file |-> "a.stp", isLoading |-> TRUE, error |-> NoError, imageUrls |-> {},
   zipBlobUrl |-> NoLink, effects |-> <<Effect("a.stp")>>, live |-> {}]

ViewIdle ==
  /\ xlsView = XlsMounted /\ pptView = PptMounted /\ stpView = StpMounted

SideIdle ==
  /\ sess = [r \in Requests |-> NoSession]
  /\ dirs = {} /\ files = {}
  /\ imgPc = "idle" /\ imgSlug = <<>> /\ imgName = <<>>
  /\ imgDisk = {} /\ imgResp = NoImgResp
  /\ ViewIdle

Blank ==
  /\ SideIdle
  /\ pc = "idle"
  /\ sessionDir = FALSE
  /\ stream = <<>> /\ pos = 0 /\ out = <<>>
  /\ calls = NoCalls
  /\ file = NoFile /\ workbook = NoBytes
  /\ stpUploads = <<>> /\ written = <<>> /\ stpInfo = <<>>
  /\ excelText = <<>> /\ cellReads = NoReads /\ rawOutput = <<>> /\ denoted = <<>>
  /\ arrJS = <<>> /\ objJS = <<>>
  /\ layout = Undef /\ quotation = Undef
  /\ renderOk = {} /\ imageMap = {}
  /\ prodBuf = NoBook /\ quoteBuf = NoBook
  /\ response = NoResponse /\ cleanup = FALSE

\* the text-driven route reads GEMINI_API_KEY and PYTHON_RENDERER_URL, the
\* image-driven route SOFFICE_PATH, PDFTOPPM_PATH and GEMINI_API_KEY
Init ==
  /\ Blank
  /\ route \in {"text", "image"}
  /\ GEMINI_API_KEY \in BOOLEAN
  /\ IF route = "text"
     THEN /\ PYTHON_RENDERER_URL \in BOOLEAN
          /\ SOFFICE_PATH = FALSE /\ PDFTOPPM_PATH = FALSE
     ELSE /\ PYTHON_RENDERER_URL = FALSE
          /\ SOFFICE_PATH \in BOOLEAN /\ PDFTOPPM_PATH \in BOOLEAN

MsgFallback == "Processing failed"

\* a catch clause that passes the error's message on as it is
Caught_messageOnly(msg) ==
  /\ response' = ErrorResponse(500, msg)
  /\ cleanup' = TRUE
  /\ pc' = "done"

\* catch (e) { return 500 with e.message || "Processing failed" }
\* finally { setTimeout(rm ...) }
Caught(msg) ==
  /\ response' = ErrorResponse(500, IF msg = "" THEN MsgFallback ELSE msg)
  /\ cleanup' = TRUE
  /\ pc' = "done"

\* a request arrives
Receive ==
  /\ pc = "idle"
  /\ \E f \in FileSet, u \in (IF route = "text" THEN StpUploadSet ELSE {<<>>}) :
       file' = f /\ stpUploads' = u
  /\ workbook' \in (IF file'.given THEN UploadedBooks ELSE {NoBytes})
  /\ pc' = "config"
  /\ UNCHANGED <<envVars, sideVars, sessionDir, streamVars, calls, written, stpInfo, normVars, textVars, docVars,
                 outVars, response, cleanup>>

\* the settings the deployed route tests before it reads the form
ConfigMissing ==
  IF route = "text" THEN ~GEMINI_API_KEY
  ELSE ~SOFFICE_PATH \/ ~PDFTOPPM_PATH \/ ~GEMINI_API_KEY

\* await initDirectories(); if (!GEMINI_API_KEY) return 500
CheckConfig ==
  /\ pc = "config"
  /\ IF ConfigMissing
     THEN response' = ErrorResponse(500, MsgConfig) /\ pc' = "done"
     ELSE response' = response /\ pc' = "form"
  /\ UNCHANGED <<envVars, sideVars, sessionDir, streamVars, calls, reqVars, written, stpInfo, normVars, textVars,
                 docVars, outVars, cleanup>>

\* if (!file || !file.name.endsWith(".xlsx")) return 400
CheckFile ==
  /\ pc = "form"
  /\ IF ~file.given \/ ~endsWith(file.name, <<".xlsx">>)
     THEN response' = ErrorResponse(400, MsgInvalid) /\ pc' = "done"
     ELSE response' = response /\ pc' = "save"
  /\ UNCHANGED <<envVars, sideVars, sessionDir, streamVars, calls, reqVars, written, stpInfo, normVars, textVars,
                 docVars, outVars, cleanup>>

\* number of leading STP uploads that can be written: fs.writeFile rejects
\* for the empty name, whose path is the session directory itself
Writable(u) ==
  IF \E i \in 1..Len(u) : u[i] = <<>>
  THEN MinOf({i \in 1..Len(u) : u[i] = <<>>}) - 1
  ELSE Len(u)

\* mkdir of the session directory, writeFile of the spreadsheet and of every
\* STP upload; a rejected write leaves POST before its try statement
SaveUploads ==
  /\ pc = "save"
  /\ sessionDir' = TRUE
  /\ LET n == Writable(stpUploads)
     IN /\ written' = <<file.name>> \o SubSeq(stpUploads, 1, n)
        /\ IF n < Len(stpUploads)
           THEN stpInfo' = SubSeq(stpUploads, 1, n) /\ pc' = "crashed"
           ELSE /\ stpInfo' = stpUploads
                /\ pc' = (IF route = "text" THEN "excel" ELSE "convert")
  /\ UNCHANGED <<envVars, sideVars, streamVars, calls, reqVars, normVars, textVars,
                 docVars, outVars, response, cleanup>>

MsgExec == "Error: Command failed"
MsgShots == "Failed creating screenshots"

\* const pngs = await convertXlsxToPng(upPath, imgDir): a command may fail,
\* and the directory may hold no page image
Convert ==
  /\ pc = "convert"
  /\ calls' = [calls EXCEPT !.convert = @ + 1]
  /\ \/ pc' = "gemini" /\ UNCHANGED <<response, cleanup>>
     \/ Caught(MsgExec)
     \/ Caught(MsgShots)
  /\ UNCHANGED <<envVars, sideVars, sessionDir, streamVars, reqVars, written, stpInfo,
                 normVars, textVars, docVars, outVars>>

\* parseExcelToText(xlsxPath): one block per worksheet, in sheet order
parseExcelToText(book) ==
  LET scans == [i \in 1..Len(book.sheets) |-> ScanSheet(book.sheets[i])]
      top(f(_)) ==
        IF scans = <<>> THEN 0
        ELSE CHOOSE m \in {f(scans[i]) : i \in 1..Len(scans)} :
               \A i \in 1..Len(scans) : f(scans[i]) <= m
      rowOf(sc) == sc.readRow
      colOf(sc) == sc.readCol
  IN [text |-> [i \in 1..Len(scans) |->
                  [sheet |-> i, lines |-> scans[i].lines,
                   noData |-> scans[i].noData, scanned |-> scans[i].last]],
      reads |-> [row |-> top(rowOf), col |-> top(colOf)]]

\* const excelText = await parseExcelToText(upPath); readFile rejects when
\* the bytes are no workbook
ParseExcel ==
  /\ pc = "excel"
  /\ IF workbook.valid
     THEN LET r == parseExcelToText(workbook)
          IN /\ excelText' = r.text
             /\ cellReads' = r.reads
             /\ pc' = "gemini"
             /\ UNCHANGED <<response, cleanup>>
     ELSE /\ Caught(MsgWorkbook)
          /\ UNCHANGED normVars
  /\ UNCHANGED <<envVars, sideVars, sessionDir, streamVars, calls, reqVars, written, stpInfo, textVars, docVars, outVars>>

\* the ways the provider may cut a completion into chunks: one chunk, or two
\* halves with a chunk without text and a chunk with empty text between
Chunkings(text) ==
  LET h == Len(text) \div 2
  IN {<<JStr(text)>>,
      <<JStr(SubSeq(text, 1, h)), Undef, JStr(<<>>),
        JStr(SubSeq(text, h + 1, Len(text)))>>}

\* a loop body that puts the chunk in front of the accumulator
Accumulate_prepend(acc, chunkText) ==
  IF Truthy(chunkText) THEN chunkText.s \o acc ELSE acc

\* if (chunk.text) out += chunk.text
Accumulate(acc, chunkText) ==
  IF Truthy(chunkText) THEN acc \o chunkText.s ELSE acc

\* a callGemini that asks again when generateContentStream rejects
CallGemini_retry ==
  /\ pc = "gemini"
  /\ calls' = [calls EXCEPT !.gemini = @ + 1]
  /\ \/ \E c \in Completions : \E ch \in Chunkings(c.text) :
          /\ stream' = ch /\ pos' = 0 /\ out' = <<>>
          /\ denoted' = c.denoted
          /\ pc' = "stream"
          /\ UNCHANGED <<response, cleanup>>
     \/ /\ calls.gemini < 2
        /\ UNCHANGED <<pc, response, cleanup, streamVars, denoted>>
  /\ UNCHANGED <<envVars, sideVars, sessionDir, reqVars, written, stpInfo, normVars,
                 rawOutput, arrJS, objJS, docVars, outVars>>

\* callGemini up to generateContentStream: the call rejects, with or
\* without a message, or opens a stream
CallGemini ==
  /\ pc = "gemini"
  /\ calls' = [calls EXCEPT !.gemini = @ + 1]
  /\ \/ \E c \in Completions : \E ch \in Chunkings(c.text) :
          /\ stream' = ch /\ pos' = 0 /\ out' = <<>>
          /\ denoted' = c.denoted
          /\ pc' = "stream"
          /\ UNCHANGED <<response, cleanup>>
     \/ /\ \E msg \in {MsgFetch, ""} : Caught(msg)
        /\ UNCHANGED <<streamVars, denoted>>
  /\ UNCHANGED <<envVars, sideVars, sessionDir, reqVars, written, stpInfo, normVars,
                 rawOutput, arrJS, objJS, docVars, outVars>>

\* one iteration of for await (const chunk of resp): the next chunk
\* arrives, or the stream rejects
ReadChunk ==
  /\ pc = "stream"
  /\ pos < Len(stream)
  /\ \/ /\ out' = Accumulate(out, stream[pos + 1])
        /\ pos' = pos + 1
        /\ UNCHANGED <<pc, stream, response, cleanup>>
     \/ /\ Caught(MsgFetch)
        /\ stream' = <<>> /\ pos' = 0 /\ out' = <<>>
  /\ UNCHANGED <<envVars, sideVars, sessionDir, calls, reqVars, written, stpInfo,
                 normVars, textVars, docVars, outVars>>

\* the stream is exhausted: return out
ReturnOut ==
  /\ pc = "stream"
  /\ pos = Len(stream)
  /\ rawOutput' = out
  /\ stream' = <<>> /\ pos' = 0 /\ out' = <<>>
  /\ pc' = "extract"
  /\ UNCHANGED <<envVars, sideVars, sessionDir, calls, reqVars, written, stpInfo,
                 normVars, denoted, arrJS, objJS, docVars, outVars, response,
                 cleanup>>

\* an extractStructures without the throw: reading arrMatch[1] of a null
\* match throws the TypeError of the runtime
Extract_noThrow ==
  /\ pc = "extract"
  /\ LET r == extractStructures(rawOutput)
     IN IF r.found
        THEN /\ arrJS' = r.arr /\ objJS' = r.obj
             /\ pc' = "parse"
             /\ UNCHANGED <<response, cleanup>>
        ELSE /\ Caught(MsgType)
             /\ UNCHANGED <<arrJS, objJS>>
  /\ UNCHANGED <<envVars, sideVars, sessionDir, streamVars, calls, reqVars, written, stpInfo, normVars, rawOutput,
                 denoted, docVars, outVars>>

\* const [arrJS, objJS] = extractStructures(rawOutput)
Extract ==
  /\ pc = "extract"
  /\ LET r == extractStructures(rawOutput)
     IN IF r.found
        THEN /\ arrJS' = r.arr /\ objJS' = r.obj
             /\ pc' = "parse"
             /\ UNCHANGED <<response, cleanup>>
        ELSE /\ Caught(MsgNotFound)
             /\ UNCHANGED <<arrJS, objJS>>
  /\ UNCHANGED <<envVars, sideVars, sessionDir, streamVars, calls, reqVars, written, stpInfo, normVars, rawOutput,
                 denoted, docVars, outVars>>

\* const layout = JSON.parse(arrJS); const quotation = JSON.parse(objJS)
Parse ==
  /\ pc = "parse"
  /\ LET a == JSONParse(arrJS)
         o == JSONParse(objJS)
     IN IF a.ok /\ o.ok
        THEN /\ layout' = a.v /\ quotation' = o.v
             /\ pc' = (IF route = "text" THEN "reconcile" ELSE "production")
             /\ UNCHANGED <<response, cleanup>>
        ELSE /\ layout' = a.v
             /\ quotation' = Undef
             /\ Caught(MsgSyntax)
  /\ UNCHANGED <<envVars, sideVars, sessionDir, streamVars, calls, reqVars, written, stpInfo, normVars, textVars,
                 outVars>>

\* the two loops that attach the matching STP filename
Reconcile ==
  /\ pc = "reconcile"
  /\ IF ReconcileThrows(layout, quotation)
     THEN /\ Caught(MsgType)
          /\ UNCHANGED docVars
     ELSE /\ layout' = ReconcileLayout(layout, stpNamesOf(stpInfo))
          /\ quotation' = ReconcileQuotation(quotation, stpNamesOf(stpInfo))
          /\ pc' = "render"
          /\ UNCHANGED <<response, cleanup>>
  /\ UNCHANGED <<envVars, sideVars, sessionDir, streamVars, calls, reqVars, written, stpInfo, normVars, textVars,
                 outVars>>

\* const imageMap = await renderStpFiles(stpInfo): one fetch for every file
\* when the URL is set, and every render may fail
Render_ ==
  /\ pc = "render"
  /\ \E ok \in SUBSET (1..Len(stpInfo)) :
       /\ renderOk' = (IF PYTHON_RENDERER_URL THEN ok ELSE {})
       /\ imageMap' = renderStpFiles(stpInfo, PYTHON_RENDERER_URL, ok)
  /\ calls' = [calls EXCEPT !.render =
                 [i \in 1..Len(stpInfo) |-> IF PYTHON_RENDERER_URL THEN 1 ELSE 0]]
  /\ pc' = "production"
  /\ UNCHANGED <<envVars, sideVars, sessionDir, streamVars, reqVars, written, stpInfo,
                 normVars, textVars, docVars, prodBuf, quoteBuf, response,
                 cleanup>>

\* const prodBuf = await buildProductionOrder(layout, imageMap)
BuildProduction ==
  /\ pc = "production"
  /\ LET b == buildProductionOrder(layout, imageMap)
     IN /\ prodBuf' = b
        /\ IF b.ok
           THEN pc' = "quotation" /\ UNCHANGED <<response, cleanup>>
           ELSE Caught(MsgType)
  /\ UNCHANGED <<envVars, sideVars, sessionDir, streamVars, calls, reqVars, written, stpInfo, normVars, textVars,
                 docVars, renderOk, imageMap, quoteBuf>>

\* const quoteBuf = await buildQuotation(quotation, imageMap)
BuildQuote ==
  /\ pc = "quotation"
  /\ \E h0 \in AddRowHeights :
       LET b == buildQuotation(quotation, imageMap, h0)
       IN /\ quoteBuf' = b
          /\ IF b.ok
             THEN pc' = "respond" /\ UNCHANGED <<response, cleanup>>
             ELSE Caught(MsgType)
  /\ UNCHANGED <<envVars, sideVars, sessionDir, streamVars, calls, reqVars, written, stpInfo, normVars, textVars,
                 docVars, renderOk, imageMap, prodBuf>>

\* return NextResponse.json({...}); finally { setTimeout(rm ...) }
Respond ==
  /\ pc = "respond"
  /\ response' = [status |-> 200, error |-> "", prod |-> TRUE, quote |-> TRUE,
                  raw |-> TRUE]
  /\ cleanup' = TRUE
  /\ pc' = "done"
  /\ UNCHANGED <<envVars, sideVars, sessionDir, streamVars, calls, reqVars, written, stpInfo, normVars, textVars,
                 docVars, outVars>>

\* ------------------------------------------------------------------------
\* Concurrent requests in the shared upload directory: the statements of
\* POST that touch the disk, for two requests at a time.  A path is the
\* sequence of its segments below UPLOAD_DIR; a file name is the sequence of
\* the segments between its separators.
\* ------------------------------------------------------------------------
\* `${Date.now()}-${Math.random().toString(36).slice(2,8)}`: two timestamps
\* of the same millisecond with the same or with different random suffixes
SlugSet == {"17-k3", "17-q8"}

\* path.normalize: a ".." segment removes the segment before it
RECURSIVE Normalize(_, _)
Normalize(done, rest) ==
  IF rest = <<>> THEN done
  ELSE IF Head(rest) = ".." /\ done # <<>> /\ done[Len(done)] # ".."
       THEN Normalize(SubSeq(done, 1, Len(done) - 1), Tail(rest))
       ELSE Normalize(Append(done, Head(rest)), Tail(rest))

\* path.join(UPLOAD_DIR, slug, name), below UPLOAD_DIR
PathJoin(slug, name) == Normalize(<<slug>>, name)

Xlsx == <<"spec.xlsx">>

\* names of the stpFiles parts of a request
SessStpNames ==
  {<<"a.stp">>, Xlsx, <<"..", "x.stp">>} \cup {<<"..", g, "spec.xlsx">> : g \in SlugSet}

\* fs.writeFile resolves when the parent directory exists and the path is
\* not a directory
CanWrite(path) ==
  \/ Len(path) = 1 /\ path[1] \notin dirs /\ path[1] # ".."
  \/ Len(path) = 2 /\ path[1] \in dirs

WriteFile(path, r, what) ==
  files' = {f \in files : f.path # path}
             \cup {[path |-> path, by |-> r, what |-> what]}

\* const slug = ...; const stpUploads = fd.getAll("stpFiles");
\* await fs.mkdir(path.dirname(upPath), { recursive: true })
SessStart(r) ==
  /\ sess[r].pc = "idle"
  /\ \E g \in SlugSet, u \in SeqsUpTo(SessStpNames, 1) :
       /\ sess' = [sess EXCEPT ![r] = [pc |-> "file", slug |-> g, stps |-> u,
                                       k |-> 0, got |-> <<>>]]
       /\ dirs' = dirs \cup {g}
  /\ UNCHANGED <<postVars, imgVars, viewVars, files>>

\* await fs.writeFile(upPath, Buffer.from(await file.arrayBuffer()))
SessWriteXlsx(r) ==
  /\ sess[r].pc = "file"
  /\ IF sess[r].slug \in dirs
     THEN /\ WriteFile(PathJoin(sess[r].slug, Xlsx), r, "xlsx")
          /\ sess' = [sess EXCEPT ![r].pc = "stp"]
     ELSE /\ sess' = [sess EXCEPT ![r].pc = "crashed"]
          /\ UNCHANGED files
  /\ UNCHANGED <<postVars, imgVars, viewVars, dirs>>

\* for (const sf of stpUploads) await fs.writeFile(path.join(UPLOAD_DIR, slug, sf.name), ...)
SessWriteStp(r) ==
  /\ sess[r].pc = "stp"
  /\ IF sess[r].k = Len(sess[r].stps)
     THEN /\ sess' = [sess EXCEPT ![r].pc = "try"]
          /\ UNCHANGED files
     ELSE LET path == PathJoin(sess[r].slug, sess[r].stps[sess[r].k + 1])
          IN IF CanWrite(path)
             THEN /\ WriteFile(path, r, "stp")
                  /\ sess' = [sess EXCEPT ![r].k = @ + 1]
             ELSE /\ sess' = [sess EXCEPT ![r].pc = "crashed"]
                  /\ UNCHANGED files
  /\ UNCHANGED <<postVars, imgVars, viewVars, dirs>>

\* try { parseExcelToText(upPath) ... } finally { setTimeout(...) }: the
\* request reads what is at upPath now, answers and schedules the deletion
SessProcess(r) ==
  /\ sess[r].pc = "try"
  /\ LET at == {f \in files : f.path = PathJoin(sess[r].slug, Xlsx)}
     IN sess' = [sess EXCEPT ![r].pc = "answered",
                             ![r].got = IF at = {} THEN <<"ENOENT">>
                                        ELSE LET f == CHOOSE x \in at : TRUE
                                             IN <<f.by, f.what>>]
  /\ UNCHANGED <<postVars, imgVars, viewVars, dirs, files>>

\* the timer fires: fs.rm(path.join(UPLOAD_DIR, slug), { recursive: true, force: true })
SessCleanup(r) ==
  /\ sess[r].pc = "answered"
  /\ dirs' = dirs \ {sess[r].slug}
  /\ files' = {f \in files : ~(Len(f.path) >= 2 /\ f.path[1] = sess[r].slug)}
  /\ sess' = [sess EXCEPT ![r].pc = "cleaned"]
  /\ UNCHANGED <<postVars, imgVars, viewVars>>

\* ------------------------------------------------------------------------
\* The images GET route (app/api/images/[slug]/[filename]).  A text is the
\* sequence of its characters, a path the text of its segments joined by "/".
\* ------------------------------------------------------------------------
\* the segments of a text between its separators
RECURSIVE Split(_)
Split(text) ==
  LET i == IndexOf(text, {SL}, 1)
  IN IF i = 0 THEN <<text>>
     ELSE <<SubSeq(text, 1, i - 1)>> \o Split(SubSeq(text, i + 1, Len(text)))

\* the path of a sequence of segments below the root
RECURSIVE PathText(_)
PathText(segs) ==
  IF segs = <<>> THEN <<>> ELSE <<SL>> \o Head(segs) \o PathText(Tail(segs))

\* path.normalize on the segments of an absolute path: empty and "."
\* segments go, a ".." segment removes the segment before it
RECURSIVE Resolve(_, _)
Resolve(done, rest) ==
  IF rest = <<>> THEN done
  ELSE IF Head(rest) \in {<<>>, <<".">>} THEN Resolve(done, Tail(rest))
  ELSE IF Head(rest) = <<"..">>
       THEN Resolve(SubSeq(done, 1, Len(done) - 1), Tail(rest))
       ELSE Resolve(Append(done, Head(rest)), Tail(rest))

\* os.tmpdir() and CONVERTED_IMAGES_DIR = path.join(os.tmpdir(), 'nextjs-pptx-images')
TmpDir == <<<<"tmp">>>>
CONVERTED_IMAGES_DIR == TmpDir \o <<<<"nextjs-pptx-images">>>>

\* path.join(CONVERTED_IMAGES_DIR, ...texts), as segments
JoinUnderImages(texts) ==
  LET RECURSIVE All(_)
      All(ts) == IF ts = <<>> THEN <<>> ELSE Split(Head(ts)) \o All(Tail(ts))
  IN Resolve(CONVERTED_IMAGES_DIR, All(texts))

\* filePath.startsWith(path.join(CONVERTED_IMAGES_DIR, slug))
UnderSlug(slug, filename) ==
  startsWith(PathText(JoinUnderImages(<<slug, filename>>)),
             PathText(JoinUnderImages(<<slug>>)))

\* values of params.slug and params.filename
ImgSlugs == {<<>>, <<"s">>, <<"s", "2">>, <<"..">>, <<"s", SL, "..", SL, "s", "2">>}
ImgNames ==
  {<<>>, <<"a", ".png">>, <<"a", ".txt">>,
   <<"..", SL, "s", "2", SL, "a", ".png">>,
   <<"..", SL, "t", SL, "a", ".png">>,
   <<"..", SL, "..", SL, "k", ".png">>}

\* files that may exist below the temporary directory
ImgFiles ==
  {CONVERTED_IMAGES_DIR \o <<<<"s">>, <<"a", ".png">>>>,
   CONVERTED_IMAGES_DIR \o <<<<"s", "2">>, <<"a", ".png">>>>,
   CONVERTED_IMAGES_DIR \o <<<<"t">>, <<"a", ".png">>>>,
   TmpDir \o <<<<"a", ".png">>>>,
   TmpDir \o <<<<"k", ".png">>>>}

\* a request arrives: const { slug, filename } = await params
ImgReceive ==
  /\ imgPc = "idle"
  /\ imgSlug' \in ImgSlugs /\ imgName' \in ImgNames
  /\ imgPc' = "check"
  /\ UNCHANGED <<postVars, sessVars, viewVars, imgDisk, imgResp>>

\* if (!slug || !filename) 404; if (!filename.endsWith('.png') || !filePath.startsWith(...)) 403
ImgCheck ==
  /\ imgPc = "check"
  /\ IF imgSlug = <<>> \/ imgName = <<>>
     THEN imgResp' = [status |-> 404, served |-> <<>>] /\ imgPc' = "done"
     ELSE IF ~endsWith(imgName, <<".png">>) \/ ~UnderSlug(imgSlug, imgName)
          THEN imgResp' = [status |-> 403, served |-> <<>>] /\ imgPc' = "done"
          ELSE imgResp' = imgResp /\ imgPc' = "read"
  /\ UNCHANGED <<postVars, sessVars, viewVars, imgSlug, imgName, imgDisk>>

\* const fileBuffer = await fs.readFile(filePath): served, or 404 when it rejects
ImgRead ==
  /\ imgPc = "read"
  /\ LET filePath == JoinUnderImages(<<imgSlug, imgName>>)
     IN imgResp' = IF filePath \in imgDisk
                   THEN [status |-> 200, served |-> filePath]
                   ELSE [status |-> 404, served |-> <<>>]
  /\ imgPc' = "done"
  /\ UNCHANGED <<postVars, sessVars, viewVars, imgSlug, imgName, imgDisk>>

\* ------------------------------------------------------------------------
\* ExcelViewer (components/excel-viewer.tsx)
\* ------------------------------------------------------------------------
\* at most this many clicks on the button
MaxRuns == 3

\* the success bodies the route can answer with
Bodies == {"order-1", "order-2"}

\* the 400 of POST's validation of the uploaded file
InvalidFile ==
  [ok |-> FALSE, status |-> 400, json |-> TRUE, body |-> MsgInvalid]

\* what fetch can resolve to for the posted file: the 400 when its name
\* fails POST's validation, else a success with its JSON body, a success
\* whose body is no JSON, or a 500
Responses(name) ==
  IF ~endsWith(name, DotXlsx)
  THEN {InvalidFile}
  ELSE {[ok |-> TRUE, status |-> 200, json |-> TRUE, body |-> b] : b \in Bodies}
       \cup {[ok |-> TRUE, status |-> 200, json |-> FALSE, body |-> "html"],
             [ok |-> FALSE, status |-> 500, json |-> TRUE, body |-> "error"]}

\* the names a user can drop on the page
UploadNames ==
  {<<"s">> \o DotXlsx, <<"s">> \o DotXls, <<"S", ".", "X", "L", "S", "X">>,
   <<"s">> \o DotStp, <<"s", ".", "t", "x", "t">>}

\* getUploadedItemType; the types dwg and powerpoint do not occur in the
\* names of the model
getUploadedItemType(filename) ==
  LET lowerFilename == toLowerCase(filename)
  IN IF endsWith(lowerFilename, DotXlsx) \/ endsWith(lowerFilename, DotXls)
     THEN "excel"
     ELSE IF endsWith(lowerFilename, DotStp) THEN "stp" ELSE "other"

\* FileViewer: uploadedItems.find(item => item.type === 'excel')
HasExcel(items) ==
  \E i \in 1..Len(items) : getUploadedItemType(items[i]) = "excel"

\* uploadedItems.filter(item => item.type === 'stp')
RECURSIVE stpFileItems(_)
stpFileItems(items) ==
  IF items = <<>> THEN <<>>
  ELSE (IF getUploadedItemType(Head(items)) = "stp" THEN <<Head(items)>> ELSE <<>>)
       \o stpFileItems(Tail(items))

primaryExcelFile(items) ==
  items[MinOf({i \in 1..Len(items) : getUploadedItemType(items[i]) = "excel"})]

\* b64ToBlobURL: URL.createObjectURL gives a fresh URL for each call
b64ToBlobURL(run, what) == [n |-> run, what |-> what]

\* the effect that loads the workbook into the table
XlsLoad ==
  /\ xlsView.loading
  /\ \E e \in {NoError, "corrupt"} :
       xlsView' = [xlsView EXCEPT !.loading = FALSE, !.err = e]
  /\ UNCHANGED <<postVars, sessVars, imgVars, pptView, stpView>>

\* a click on the button, which is rendered once the workbook is loaded and
\* is disabled while processing: runPipeline up to the await of fetch
runPipeline ==
  /\ ~xlsView.loading /\ xlsView.err = NoError
  /\ ~xlsView.processing
  /\ xlsView.runs < MaxRuns
  /\ xlsView' = [xlsView EXCEPT !.processing = TRUE,
                                !.prodLink = NoLink, !.quoteLink = NoLink,
                                !.raw = "null",
                                !.at = "fetch", !.runs = @ + 1]
  /\ UNCHANGED <<postVars, sessVars, imgVars, pptView, stpView>>

\* fetch settles: it resolves to a response, or it rejects and runPipeline,
\* which catches nothing, ends there
XlsFetch ==
  /\ xlsView.at = "fetch"
  /\ \/ \E r \in Responses(xlsView.file) :
          xlsView' = [xlsView EXCEPT !.at = "response", !.res = r]
     \/ xlsView' = [xlsView EXCEPT !.at = "thrown"]
  /\ UNCHANGED <<postVars, sessVars, imgVars, pptView, stpView>>

\* if (!res.ok): the alert, setProcessing(false), return
XlsNotOk ==
  /\ xlsView.at = "response" /\ ~xlsView.res.ok
  /\ xlsView' = [xlsView EXCEPT !.processing = FALSE, !.at = "idle"]
  /\ UNCHANGED <<postVars, sessVars, imgVars, pptView, stpView>>

\* await res.json() and the four setters; res.json() rejects on a body
\* that is no JSON
XlsJson ==
  /\ xlsView.at = "response" /\ xlsView.res.ok
  /\ IF xlsView.res.json
     THEN xlsView' = [xlsView EXCEPT
                        !.prodLink = b64ToBlobURL(xlsView.runs, "production"),
                        !.quoteLink = b64ToBlobURL(xlsView.runs, "quotation"),
                        !.raw = xlsView.res.body,
                        !.processing = FALSE, !.at = "idle"]
     ELSE xlsView' = [xlsView EXCEPT !.at = "thrown"]
  /\ UNCHANGED <<postVars, sessVars, imgVars, pptView, stpView>>

\* ------------------------------------------------------------------------
\* PowerPointViewer and StpViewer (components/powerpoint-viewer.tsx)
\* ------------------------------------------------------------------------
\* at most this many changes of a viewer's file prop
MaxChanges == 2

\* the slide images the convert route answers with for a presentation
SlidesOf(f) == <<<<f, "slide-1.png">>, <<f, "slide-2.png">>>>

\* the file prop changes: the effect runs again and posts the new file,
\* whatever is still in flight
PptFileChange ==
  /\ Len(pptView.effects) <= MaxChanges
  /\ \E f \in PptFiles \ {pptView.file} :
       pptView' = [pptView EXCEPT !.file = f, !.loading = TRUE,
                                  !.error = NoError,
                                  !.effects = Append(@, Effect(f))]
  /\ UNCHANGED <<postVars, sessVars, imgVars, xlsView, stpView>>

\* a call of loadPowerPointImages is answered: the slides of the file it
\* posted, or an error
PptSettle ==
  /\ \E n \in 1..Len(pptView.effects), ok \in BOOLEAN :
       /\ pptView.effects[n].at = "fetch"
       /\ pptView' =
            IF ok
            THEN [pptView EXCEPT !.slides = SlidesOf(pptView.effects[n].file),
                                 !.loading = FALSE,
                                 !.effects[n].at = "done"]
            ELSE [pptView EXCEPT !.error = "failed", !.loading = FALSE,
                                 !.effects[n].at = "done"]
  /\ UNCHANGED <<postVars, sessVars, imgVars, xlsView, stpView>>

\* the cleanup of an effect: revoke what the closure variables hold now
StpCleanup(e) == e.urls \cup ({e.zip} \ {NoLink})

\* file or fileName changes: the cleanup of the last effect, then the new
\* effect up to the await of fetch
StpFileChange ==
  /\ Len(stpView.effects) <= MaxChanges
  /\ \E f \in StpFiles \ {stpView.file} :
       LET last == Len(stpView.effects)
       IN stpView' =
            [stpView EXCEPT
               !.file = f, !.isLoading = TRUE, !.error = NoError,
               !.imageUrls = {}, !.zipBlobUrl = NoLink,
               !.live = (@ \ StpCleanup(stpView.effects[last]))
                          \ {stpView.zipBlobUrl},
               !.effects = Append([@ EXCEPT ![last].cleaned = TRUE], Effect(f))]
  /\ UNCHANGED <<postVars, sessVars, imgVars, xlsView, pptView>>

\* fetch of render-stp settles for one call of fetchAndProcessStp: the
\* archive gets its object URL, or the error is shown
StpFetch ==
  /\ \E n \in 1..Len(stpView.effects), ok \in BOOLEAN :
       /\ stpView.effects[n].at = "fetch"
       /\ stpView' =
            IF ok
            THEN LET z == [n |-> n, what |-> "zip"]
                 IN [stpView EXCEPT !.zipBlobUrl = z,
                                    !.live = @ \cup {z},
                                    !.effects[n].zip = z,
                                    !.effects[n].at = "unzip"]
            ELSE [stpView EXCEPT !.error = "failed", !.isLoading = FALSE,
                                 !.effects[n].at = "done"]
  /\ UNCHANGED <<postVars, sessVars, imgVars, xlsView, pptView>>

\* the archive is read: every image in it gets an object URL, pushed to
\* objectUrlsToRevoke, and the images are shown
StpUnzip ==
  /\ \E n \in 1..Len(stpView.effects), count \in 0..1 :
       LET made == {[n |-> n, what |-> "png"] : c \in 1..count}
       IN /\ stpView.effects[n].at = "unzip"
          /\ stpView' =
               [stpView EXCEPT
                  !.imageUrls = made,
                  !.error = IF made = {} THEN "no images" ELSE @,
                  !.isLoading = FALSE,
                  !.live = @ \cup made,
                  !.effects[n].urls = @ \cup made,
                  !.effects[n].at = "done"]
  /\ UNCHANGED <<postVars, sessVars, imgVars, xlsView, pptView>>

\* ------------------------------------------------------------------------
\* Specifications
\* ------------------------------------------------------------------------
\* the request as it stands when parseExcelToText is about to run
Saved(book) ==
  /\ SideIdle
  /\ pc = "excel"
  /\ route = "text"
  /\ GEMINI_API_KEY = TRUE /\ PYTHON_RENDERER_URL = TRUE
  /\ SOFFICE_PATH = FALSE /\ PDFTOPPM_PATH = FALSE
  /\ sessionDir = TRUE
  /\ stream = <<>> /\ pos = 0 /\ out = <<>>
  /\ calls = NoCalls
  /\ file = [given |-> TRUE, name |-> <<"spec", ".xlsx">>]
  /\ workbook = book
  /\ stpUploads = <<>> /\ written = <<file.name>> /\ stpInfo = <<>>
  /\ excelText = <<>> /\ cellReads = NoReads
  /\ rawOutput = <<>> /\ denoted = <<>> /\ arrJS = <<>> /\ objJS = <<>>
  /\ layout = Undef /\ quotation = Undef
  /\ renderOk = {} /\ imageMap = {}
  /\ prodBuf = NoBook /\ quoteBuf = NoBook
  /\ response = NoResponse /\ cleanup = FALSE

\* the normalizer on its own: any workbook of NormBooks
InitNorm == \E book \in NormBooks : Saved(book)

NextNorm == ParseExcel

SpecNorm == InitNorm /\ [][NextNorm]_vars

\* the repair parser on its own: callGemini has returned any of RepairInputs
InitRepair ==
  /\ SideIdle
  /\ pc = "extract"
  /\ route = "text"
  /\ GEMINI_API_KEY = TRUE /\ PYTHON_RENDERER_URL = TRUE
  /\ SOFFICE_PATH = FALSE /\ PDFTOPPM_PATH = FALSE
  /\ sessionDir = TRUE
  /\ stream = <<>> /\ pos = 0 /\ out = <<>>
  /\ calls = [NoCalls EXCEPT !.gemini = 1]
  /\ file = [given |-> TRUE, name |-> <<"spec", ".xlsx">>]
  /\ workbook = Book(<<SampleSheet>>)
  /\ stpUploads = <<>> /\ written = <<file.name>> /\ stpInfo = <<>>
  /\ excelText = parseExcelToText(workbook).text
  /\ cellReads = parseExcelToText(workbook).reads
  /\ \E c \in RepairInputs : rawOutput = c.text /\ denoted = c.denoted
  /\ arrJS = <<>> /\ objJS = <<>>
  /\ layout = Undef /\ quotation = Undef
  /\ renderOk = {} /\ imageMap = {}
  /\ prodBuf = NoBook /\ quoteBuf = NoBook
  /\ response = NoResponse /\ cleanup = FALSE

NextRepair == Extract \/ Parse

SpecRepair == InitRepair /\ [][NextRepair]_vars

\* two requests in the upload directory of the text-driven route
InitSession ==
  /\ Blank
  /\ route = "text"
  /\ GEMINI_API_KEY = TRUE /\ PYTHON_RENDERER_URL = TRUE
  /\ SOFFICE_PATH = FALSE /\ PDFTOPPM_PATH = FALSE

NextSession ==
  \E r \in Requests :
    \/ SessStart(r)
    \/ SessWriteXlsx(r)
    \/ SessWriteStp(r)
    \/ SessProcess(r)
    \/ SessCleanup(r)

SpecSession == InitSession /\ [][NextSession]_vars

\* the other state while the images route is looked at
PostIdle ==
  /\ route = "text"
  /\ GEMINI_API_KEY = TRUE /\ PYTHON_RENDERER_URL = TRUE
  /\ SOFFICE_PATH = FALSE /\ PDFTOPPM_PATH = FALSE
  /\ pc = "idle"
  /\ sessionDir = FALSE
  /\ stream = <<>> /\ pos = 0 /\ out = <<>>
  /\ calls = NoCalls
  /\ file = NoFile /\ workbook = NoBytes
  /\ stpUploads = <<>> /\ written = <<>> /\ stpInfo = <<>>
  /\ excelText = <<>> /\ cellReads = NoReads /\ rawOutput = <<>> /\ denoted = <<>>
  /\ arrJS = <<>> /\ objJS = <<>>
  /\ layout = Undef /\ quotation = Undef
  /\ renderOk = {} /\ imageMap = {}
  /\ prodBuf = NoBook /\ quoteBuf = NoBook
  /\ response = NoResponse /\ cleanup = FALSE

\* the images GET route over any set of files on disk
InitImages ==
  /\ PostIdle
  /\ sess = [r \in Requests |-> NoSession]
  /\ dirs = {} /\ files = {}
  /\ imgPc = "idle" /\ imgSlug = <<>> /\ imgName = <<>>
  /\ imgDisk \in SUBSET ImgFiles
  /\ imgResp = NoImgResp
  /\ ViewIdle

\* ExcelViewer alone; a promise that is pending settles and the code after
\* an await runs, while the user need not click
\* at most this many files in one drop
MaxItems == 2

\* the viewers after the first render of the page
Mounted == PostIdle /\ SideIdle

\* ExcelViewer is rendered with the first file of the drop that the page
\* takes for a spreadsheet
InitViewer ==
  /\ PostIdle
  /\ sess = [r \in Requests |-> NoSession]
  /\ dirs = {} /\ files = {}
  /\ imgPc = "idle" /\ imgSlug = <<>> /\ imgName = <<>>
  /\ imgDisk = {} /\ imgResp = NoImgResp
  /\ pptView = PptMounted /\ stpView = StpMounted
  /\ \E items \in SeqsUpTo(UploadNames, MaxItems) :
       /\ HasExcel(items)
       /\ xlsView = [XlsMounted EXCEPT !.file = primaryExcelFile(items),
                                      !.stpFiles = stpFileItems(items)]

NextViewer == XlsLoad \/ runPipeline \/ XlsFetch \/ XlsNotOk \/ XlsJson

SpecViewer ==
  /\ InitViewer /\ [][NextViewer]_vars
  /\ WF_vars(XlsLoad) /\ WF_vars(XlsFetch) /\ WF_vars(XlsNotOk) /\ WF_vars(XlsJson)

\* PowerPointViewer and StpViewer, each under changes of its file prop
NextPreview ==
  PptFileChange \/ PptSettle \/ StpFileChange \/ StpFetch \/ StpUnzip

SpecPreview == Mounted /\ [][NextPreview]_vars

NextImages == ImgReceive \/ ImgCheck \/ ImgRead

SpecImages == InitImages /\ [][NextImages]_vars

Next ==
  \/ Receive
  \/ CheckConfig
  \/ CheckFile
  \/ SaveUploads
  \/ Convert
  \/ ParseExcel
  \/ CallGemini
  \/ ReadChunk
  \/ ReturnOut
  \/ Extract
  \/ Parse
  \/ Reconcile
  \/ Render_
  \/ BuildProduction
  \/ BuildQuote
  \/ Respond

Spec == Init /\ [][Next]_vars

\* ------------------------------------------------------------------------
\* Properties
\* ------------------------------------------------------------------------
\* C1 -- Part-image reconciliation.  After the reconciliation step, the image
\* field of every main_table_data_row with more than 2 values (data index 1)
\* and of every product line is the lower-cased name of the first uploaded
\* STP file, in upload order, whose lower-cased name starts with the row's
\* lower-cased part identifier; when no name matches, the field keeps the
\* value it had after parsing.
C1_ReconcileFirstMatch ==
  pc \in {"render", "production", "quotation", "respond"} =>
    LET parsedL == JSONParse(arrJS).v
        parsedQ == JSONParse(objJS).v
        idOf(v) == IF v.t = "str" THEN toLowerCase(v.s) ELSE <<>>
        hits(id) == {k \in 1..Len(stpInfo) :
                       startsWith(toLowerCase(stpInfo[k]), id)}
        first(id) == CHOOSE k \in hits(id) : \A j \in hits(id) : k <= j
        expected(id, old) ==
          IF hits(id) = {} THEN old ELSE JStr(toLowerCase(stpInfo[first(id)]))
    IN /\ Length(layout) = Length(parsedL)
       /\ \A i \in 1..Length(parsedL) :
            LET d == Get(parsedL.kids[i], kData)
            IN (/\ Get(parsedL.kids[i], kType) = TableDataRow
                /\ d.t = "arr"
                /\ Length(d) > 2)
               => At(Get(layout.kids[i], kData), 1)
                    = expected(idOf(At(d, 2)), At(d, 1))
       /\ Get(parsedQ, kProducts).t = "arr" =>
            \A i \in 1..Length(Get(parsedQ, kProducts)) :
              LET p == Get(parsedQ, kProducts).kids[i]
              IN Get(Get(quotation, kProducts).kids[i], kImg)
                   = expected(idOf(Get(p, kName)), Get(p, kImg))

\* C1 witness: two uploads match the part number P1 of the row and of the
\* product; both got the lower-cased name of the upload made first.
C1_Witness ==
  /\ pc = "render"
  /\ stpInfo = <<<<"P", "1">>, <<"p", "1", "x">>>>
  /\ Length(layout) = 1
  /\ At(Get(layout.kids[1], kData), 2) = JStr(<<"P", "1">>)
  /\ At(Get(layout.kids[1], kData), 1) = JStr(<<"p", "1">>)
  /\ Get(At(Get(quotation, kProducts), 0), kImg) = JStr(<<"p", "1">>)

\* C2 -- Reference-to-bytes resolution.  Whenever reconciliation wrote a
\* matched filename into a row's image field and the renderer returned an
\* image for the matched upload, the production-order emitter and the
\* quotation emitter embed an image on that row, whatever the letter case of
\* the uploaded name.
C2_ReferenceResolves ==
  LET idOf(v) == IF v.t = "str" THEN toLowerCase(v.s) ELSE <<>>
      hits(id) == {k \in 1..Len(stpInfo) :
                     startsWith(toLowerCase(stpInfo[k]), id)}
      first(id) == CHOOSE k \in hits(id) : \A j \in hits(id) : k <= j
      rendered(id) == hits(id) # {} /\ first(id) \in renderOk
  IN /\ prodBuf.ok =>
          \A i \in 1..Len(prodBuf.rows) :
            LET d == Get(layout.kids[i], kData)
            IN (/\ Get(layout.kids[i], kType) = TableDataRow
                /\ d.t = "arr"
                /\ Length(d) > 2
                /\ rendered(idOf(At(d, 2))))
               => prodBuf.rows[i].image # NoImage
     /\ quoteBuf.ok =>
          \A i \in 1..Len(quoteBuf.rows) :
            rendered(idOf(Get(Get(quotation, kProducts).kids[i], kName)))
              => quoteBuf.rows[i].image # NoImage

\* C3 -- End-to-end coupling of the two documents.  When the completion
\* describes one part with part number P in both structures and an upload's
\* lower-cased name starts with lower-cased P (and was rendered), the
\* response carries a production-order data row whose image slot (index 1) is
\* that filename with an embedded image, and a quotation product line whose
\* image key is the same filename.
C3_EndToEndCoupling ==
  (pc = "done" /\ response.status = 200 /\ denoted = <<L1, Q1>>) =>
    LET hits == {k \in 1..Len(stpInfo) :
                   startsWith(toLowerCase(stpInfo[k]), <<"p", "1">>)}
        first == CHOOSE k \in hits : \A j \in hits : k <= j
        name == JStr(toLowerCase(stpInfo[first]))
    IN (hits # {} /\ first \in renderOk) =>
         /\ At(prodBuf.rows[1].values, 1) = name
         /\ At(prodBuf.rows[1].values, 2) = JStr(<<"P", "1">>)
         /\ prodBuf.rows[1].image # NoImage
         /\ At(quoteBuf.rows[1].values, 1) = name
         /\ quoteBuf.rows[1].image # NoImage

\* C4 -- Repair-pass idempotence on well-formed input.  For every located
\* literal that is already strict JSON, parsing the output of clean gives the
\* value that parsing the literal directly gives, for every string content.
C4_CleanKeepsStrictLiterals ==
  pc = "parse" =>
    LET r == extractStructures(rawOutput)
    IN /\ JSONParse(r.arrCap).ok => JSONParse(arrJS) = JSONParse(r.arrCap)
       /\ JSONParse(r.objCap).ok => JSONParse(objJS) = JSONParse(r.objCap)

\* C5 -- Repair-parser robustness.  For every completion that carries both
\* literals and deviates from strict syntax only by single quotes, trailing
\* commas, line comments, commentary and code fences, extractStructures and
\* JSON.parse locate both literals and parse each to the value it denotes.
C5_RepairParsesLooseLiterals ==
  denoted # <<>> =>
    /\ pc # "done"
    /\ pc = "reconcile" => layout = denoted[1] /\ quotation = denoted[2]

\* C6 -- Extraction fail-fast.  When the completion holds no locatable
\* literal for excelLayoutData or none for quotationData, the step from
\* extractStructures ends the request with the 500 response that carries the
\* "Failed to extract" message, and nothing was parsed, reconciled, rendered
\* or emitted; that message is never the answer to a literal that was
\* located and then failed to parse.
C6_NotFoundFailsFast ==
  /\ [][(pc = "extract" /\ ~extractStructures(rawOutput).found) =>
          /\ pc' = "done"
          /\ response' = ErrorResponse(500, MsgNotFound)]_vars
  /\ [](response.error = MsgNotFound =>
          /\ pc = "done"
          /\ arrJS = <<>> /\ objJS = <<>>
          /\ layout = Undef /\ quotation = Undef
          /\ renderOk = {} /\ imageMap = {}
          /\ prodBuf = NoBook /\ quoteBuf = NoBook)
  /\ []((pc = "done" /\ arrJS # <<>> /\ ~JSONParse(arrJS).ok) =>
          /\ response.status = 500
          /\ response.error = MsgSyntax
          /\ response.error # MsgNotFound)

\* C6 witness: the request ended with the not-found message for a completion
\* that holds the layout literal but no terminated quotation literal.
C6_Witness ==
  /\ pc = "done"
  /\ response = ErrorResponse(500, MsgNotFound)
  /\ rawOutput # <<>>
  /\ MatchFrom(StripFences(rawOutput), "excelLayoutData", LB, RB) # <<0, 0>>
  /\ MatchFrom(StripFences(rawOutput), "quotationData", LC, RC) = <<0, 0>>

\* C7 -- Shape validation is fatal.  A parsed layout or quotation that
\* violates the documented schema (a data row without exactly 9 values, a
\* title row without text or merge span, a header-detail row without cells,
\* an unknown row type) never reaches a document emitter and never yields a
\* 200 response.
C7_WrongShapeNeverEmitted ==
  LET validRow(item) ==
        /\ item.t = "obj"
        /\ Get(item, kType) \in {TitleRow, HeaderDetailRow, TableHeaderRow, TableDataRow}
        /\ Get(item, kType) = TitleRow =>
             Get(item, kText).t = "str" /\ Get(item, kMerge).t = "str"
        /\ Get(item, kType) = HeaderDetailRow =>
             Get(item, kCells).t = "arr" /\ Length(Get(item, kCells)) >= 1
        /\ Get(item, kType) = TableHeaderRow => Get(item, kHeaders).t = "arr"
        /\ Get(item, kType) = TableDataRow =>
             Get(item, kData).t = "arr" /\ Length(Get(item, kData)) = 9
      validLayout(l) ==
        l.t = "arr" /\ \A i \in 1..Length(l) : validRow(l.kids[i])
      validQuotation(q) ==
        /\ q.t = "obj"
        /\ Get(q, kCompany).t = "obj"
        /\ Get(q, kProducts).t = "arr"
        /\ \A i \in 1..Length(Get(q, kProducts)) :
             /\ Get(q, kProducts).kids[i].t = "obj"
             /\ Get(Get(q, kProducts).kids[i], kName).t = "str"
  IN (pc \in {"production", "quotation", "respond"} \/ response.status = 200)
       => validLayout(layout) /\ validQuotation(quotation)

\* C8 -- Normalizer early termination.  Once a sheet has produced a
\* non-empty row, scanning stops after 10 consecutive fully-empty rows: a
\* non-empty row that follows a run of exactly 10 empty rows is not in the
\* transcript, every non-empty row within the ceiling that no run of 10
\* empty rows precedes is, and the look-ahead reads no row above 200 and no
\* column above 50.
C8_StopsAfterTenEmptyRows ==
  /\ cellReads.row <= 200 /\ cellReads.col <= 50
  /\ \A b \in 1..Len(excelText) :
       LET sheet == workbook.sheets[b]
           written_ == {excelText[b].lines[l].row : l \in 1..Len(excelText[b].lines)}
           nonEmpty(r) == \E a \in DOMAIN sheet :
                            a[1] = r /\ a[2] \in 1..50 /\ Shown(sheet[a])
           empty(r) == ~\E a \in DOMAIN sheet :
                            a[1] = r /\ a[2] \in 1..50 /\ NonNull(sheet[a])
           run(k) == /\ \E d \in 1..(k - 1) : nonEmpty(d)
                     /\ \A j \in k..(k + 9) : empty(j)
       IN /\ \A r \in 12..200 :
               (nonEmpty(r) /\ run(r - 10) /\ ~empty(r - 11)) => r \notin written_
          /\ \A r \in 1..200 :
               (nonEmpty(r) /\ ~\E k \in 1..(r - 10) : run(k)) => r \in written_

\* C9 -- Normalizer boundedness.  Every cell address in the transcript lies
\* in rows 1..200 and columns 1..50, and parseExcelToText reads no cell
\* outside that window, even when the sheet holds data beyond it.
C9_NormalizerBounded ==
  /\ cellReads.row <= 200 /\ cellReads.col <= 50
  /\ \A b \in 1..Len(excelText) : \A l \in 1..Len(excelText[b].lines) :
       /\ excelText[b].lines[l].row \in 1..200
       /\ \A c \in 1..Len(excelText[b].lines[l].cells) :
            LET a == excelText[b].lines[l].cells[c].address
            IN a[1] = excelText[b].lines[l].row /\ a[2] \in 1..50

\* C9 witness: the sheet holds a value below row 200 that the look-ahead
\* from row 200 must not reach, and a value right of column 50; the
\* transcript has the row 199 and the scan read up to row 200.
C9_Witness ==
  /\ pc = "gemini"
  /\ Len(workbook.sheets) = 1
  /\ DOMAIN workbook.sheets[1] = {<<199, 1>>, <<201, 1>>}
  /\ \A a \in DOMAIN workbook.sheets[1] : Shown(workbook.sheets[1][a])
  /\ Len(excelText[1].lines) = 1
  /\ excelText[1].lines[1].row = 199
  /\ cellReads.row = 200

\* C10 (as stated) -- Formula provenance tagging.  Every formula cell in the
\* transcript is written as FORMULA: <expr>, whether or not the cell also
\* carries a computed result.
C10_EveryFormulaCellTagged ==
  \A b \in 1..Len(excelText) : \A l \in 1..Len(excelText[b].lines) :
    \A c \in 1..Len(excelText[b].lines[l].cells) :
      LET cell == excelText[b].lines[l].cells[c]
          v == workbook.sheets[b][cell.address]
      IN (v.kind = "obj" /\ "formula" \in v.keys) =>
           cell.text = <<"FORMULA:", SP>> \o v.formula

\* C10 (amended) -- A formula cell is written as FORMULA: <expr> only when
\* its value has no text, result or richText property; a value with a result
\* is written as the string of the result, without the tag; a rich-text
\* value is written as the concatenation of its runs, a value with a text
\* property as that text, each trimmed.
C10_FormulaTagOnlyWithoutResult ==
  \A b \in 1..Len(excelText) : \A l \in 1..Len(excelText[b].lines) :
    \A c \in 1..Len(excelText[b].lines[l].cells) :
      LET cell == excelText[b].lines[l].cells[c]
          v == workbook.sheets[b][cell.address]
      IN v.kind = "obj" =>
           /\ "text" \in v.keys => cell.text = trim(v.text)
           /\ ("result" \in v.keys /\ "text" \notin v.keys) =>
                cell.text = trim(v.result)
           /\ ("richText" \in v.keys /\ v.keys \cap {"text", "result"} = {}) =>
                cell.text = trim(Concat(v.runs))
           /\ ("formula" \in v.keys /\ v.keys \cap {"text", "result", "richText"} = {}) =>
                cell.text = <<"FORMULA:", SP>> \o v.formula

\* C10 witness: one sheet whose transcript shows a formula without a result
\* with the tag and a formula with a result as the result alone.
C10_Witness ==
  /\ pc = "gemini"
  /\ Len(workbook.sheets) = 1
  /\ \E l1, l2 \in 1..Len(excelText[1].lines) :
       LET c1 == excelText[1].lines[l1].cells[1]
           c2 == excelText[1].lines[l2].cells[1]
       IN /\ workbook.sheets[1][c1.address] = FormulaOnly
          /\ c1.text = <<"FORMULA:", SP>> \o FormulaOnly.formula
          /\ workbook.sheets[1][c2.address] = FormulaResult
          /\ c2.text = FormulaResult.result

\* C11 -- Transcript content and order.  For each sheet the transcript has
\* exactly one line for every scanned row with a cell whose trimmed value is
\* not empty, the lines in ascending row order, each with exactly those
\* cells in ascending column order; a sheet without such a cell in the
\* scanned rows has the "No data found" marker; the transcript is a
\* function of the workbook alone, so a second run gives the same text.
C11_TranscriptContentAndOrder ==
  /\ excelText # <<>> => excelText = parseExcelToText(workbook).text
  /\ Len(excelText) \in {0, Len(workbook.sheets)}
  /\ \A b \in 1..Len(excelText) :
       LET sheet == workbook.sheets[b]
           lines == excelText[b].lines
           shownIn(r) == {a \in DOMAIN sheet :
                            /\ a[1] = r /\ a[2] \in 1..50
                            /\ ~(sheet[a].kind = "prim" /\ sheet[a].text = <<>>)
                            /\ trim(CellText(sheet[a])) # <<>>}
           rows == {r \in 1..excelText[b].scanned : shownIn(r) # {}}
       IN /\ excelText[b].sheet = b
          /\ {lines[l].row : l \in 1..Len(lines)} = rows
          /\ Len(lines) = Cardinality(rows)
          /\ \A l \in 1..(Len(lines) - 1) : lines[l].row < lines[l + 1].row
          /\ \A l \in 1..Len(lines) :
               LET cells == lines[l].cells
               IN /\ {cells[c].address : c \in 1..Len(cells)} = shownIn(lines[l].row)
                  /\ Len(cells) = Cardinality(shownIn(lines[l].row))
                  /\ \A c \in 1..(Len(cells) - 1) :
                       cells[c].address[2] < cells[c + 1].address[2]
          /\ excelText[b].noData = (rows = {})

\* C11 witness: a workbook of two sheets; the first gives two lines of two
\* cells each, in row and column order, the second the marker.
C11_Witness ==
  /\ pc = "gemini"
  /\ Len(excelText) = 2
  /\ Len(excelText[1].lines) = 2
  /\ excelText[1].lines[1].row = 1 /\ excelText[1].lines[2].row = 2
  /\ Len(excelText[1].lines[1].cells) = 2
  /\ excelText[1].lines[1].cells[1].address = <<1, 1>>
  /\ excelText[1].lines[1].cells[2].address = <<1, 2>>
  /\ ~excelText[1].noData
  /\ excelText[2].lines = <<>> /\ excelText[2].noData

\* the texts of the chunks that have one, joined in arrival order
RECURSIVE JoinTexts(_)
JoinTexts(chunks) ==
  IF chunks = <<>> THEN <<>>
  ELSE (IF Head(chunks).t = "str" THEN Head(chunks).s ELSE <<>>)
         \o JoinTexts(Tail(chunks))

\* C12 -- Streamed response reassembly.  callGemini returns only when the
\* stream is exhausted, and what it returns is the concatenation, in
\* arrival order, of the text of every chunk; a chunk without text
\* contributes nothing.
C12_StreamReassembly ==
  /\ [](pc = "stream" => out = JoinTexts(SubSeq(stream, 1, pos)))
  /\ [][(pc = "stream" /\ pc' = "extract")
          => pos = Len(stream) /\ rawOutput' = JoinTexts(stream)]_vars

\* C12 witness: a stream of four chunks, one of them without text, has been
\* read to its end and a non-empty text is about to be returned.
C12_Witness ==
  /\ pc = "stream" /\ pos = Len(stream)
  /\ Len(stream) = 4 /\ stream[2] = Undef
  /\ stream[1].s # <<>> /\ stream[4].s # <<>> /\ stream[1].s # stream[4].s
  /\ out = stream[1].s \o stream[4].s

\* C13 -- No automatic retries.  Within one request the completion request
\* and the rasterizer are invoked at most once and the CAD renderer at most
\* once per uploaded file, and once the request has answered (a failure
\* included) no external call is made again.
C13_NoRetries ==
  /\ [](/\ calls.gemini <= 1
        /\ calls.convert <= 1
        /\ Len(calls.render) <= Len(stpInfo)
        /\ \A i \in 1..Len(calls.render) : calls.render[i] <= 1)
  /\ [][response # NoResponse => calls' = calls]_vars

\* C13 witness: the completion request failed after its single attempt and
\* the request ended with the failure.
C13_Witness ==
  /\ pc = "done" /\ response.status = 500 /\ response.error = MsgFetch
  /\ calls.gemini = 1 /\ rawOutput = <<>> /\ stream = <<>>

\* C13 witness: every uploaded file was sent to the renderer once, one
\* failed, and the request went on.
C13_WitnessRender ==
  /\ pc = "done" /\ response.status = 200
  /\ Len(stpInfo) = 2 /\ calls.render = <<1, 1>> /\ Cardinality(renderOk) = 1

\* the settings the two pipelines need: the completion key and the renderer
\* URL for the text-driven one, the converter path, the rasterizer path and
\* the completion key for the image-driven one
RequiredUnset ==
  IF route = "text" THEN ~GEMINI_API_KEY \/ ~PYTHON_RENDERER_URL
  ELSE ~SOFFICE_PATH \/ ~PDFTOPPM_PATH \/ ~GEMINI_API_KEY

\* C14 -- Configuration pre-flight.  When any required setting is unset the
\* request gets the 500 configuration answer, and no session directory is
\* made, no file written and no external capability called.
C14_ConfigPreflight ==
  (RequiredUnset /\ pc \notin {"idle", "config"})
    => /\ pc = "done"
       /\ response = ErrorResponse(500, MsgConfig)
       /\ sessionDir = FALSE /\ written = <<>> /\ calls = NoCalls

\* C15 -- Input validation.  A request that passed the configuration check
\* and whose file field is missing, or whose file name does not end with
\* ".xlsx", is answered with 400; no session directory is created, no file
\* written, no external call made and no cleanup timer scheduled.  No other
\* request is answered with 400.
C15_InputValidation ==
  /\ (/\ pc \notin {"idle", "config", "form"}
      /\ ~ConfigMissing
      /\ (~file.given \/ file.name[Len(file.name)] # ".xlsx"))
       => /\ pc = "done"
          /\ response = ErrorResponse(400, MsgInvalid)
          /\ sessionDir = FALSE /\ written = <<>> /\ stpInfo = <<>>
          /\ calls = NoCalls /\ excelText = <<>>
          /\ cleanup = FALSE
  /\ response.status = 400
       => /\ ~file.given \/ file.name[Len(file.name)] # ".xlsx"
          /\ sessionDir = FALSE /\ cleanup = FALSE

\* C15 witness: a request with STP uploads and a file named spec.xls was
\* answered with 400.
C15_Witness ==
  /\ pc = "done" /\ response.status = 400
  /\ file.given /\ file.name = <<"spec", ".xls">>
  /\ stpUploads # <<>>

\* C15 witness: a request without the file field was answered with 400.
C15_WitnessMissing ==
  /\ pc = "done" /\ response.status = 400 /\ ~file.given

\* C16 -- CAD renderer failure degrades gracefully.  The rendering step
\* never ends the request, whatever files fail; the image map has an entry
\* for exactly the names of the files that rendered, so a failed file adds
\* none and takes none away; and the emitters produce their workbooks
\* exactly when they would have with every file rendered.
C16_RenderFailureDegrades ==
  /\ [](/\ renderOk \subseteq 1..Len(stpInfo)
        /\ imageMap = {stpInfo[i] : i \in renderOk}
        /\ pc \in {"production", "quotation"} =>
             LET all == {stpInfo[i] : i \in 1..Len(stpInfo)}
             IN /\ buildProductionOrder(layout, imageMap).ok
                    = buildProductionOrder(layout, all).ok
                /\ \A h0 \in AddRowHeights :
                     buildQuotation(quotation, imageMap, h0).ok
                       = buildQuotation(quotation, all, h0).ok)
  /\ [][pc = "render" => pc' = "production" /\ response' = NoResponse
                           /\ cleanup' = FALSE]_vars

\* C16 witness: of two uploads with different names the first failed to
\* render and the second rendered; the request ended with both workbooks.
C16_Witness ==
  /\ pc = "done" /\ response.status = 200 /\ response.prod /\ response.quote
  /\ PYTHON_RENDERER_URL
  /\ Len(stpInfo) = 2 /\ stpInfo[1] # stpInfo[2]
  /\ renderOk = {2} /\ imageMap = {stpInfo[2]}
  /\ prodBuf.ok /\ quoteBuf.ok

\* the stages inside POST's try statement
TryStages ==
  {"excel", "convert", "gemini", "stream", "extract", "parse", "reconcile",
   "render", "production", "quotation", "respond"}

\* C17 -- Fatal error propagation.  A stage of the pipeline that fails ends
\* the request with status 500, a non-empty message and no workbook; a
\* request is answered once; an answer with status 200 has both workbooks
\* and the raw model text.
C17_FatalErrorPropagation ==
  /\ [](/\ response.status \in {0, 200, 400, 500}
        /\ response.status = 0 <=> pc # "done"
        /\ response.status = 500 =>
             /\ response.error # ""
             /\ ~response.prod /\ ~response.quote /\ ~response.raw
        /\ response.status = 200 =>
             /\ response.prod /\ response.quote /\ response.raw
             /\ response.error = ""
             /\ prodBuf.ok /\ quoteBuf.ok /\ rawOutput # <<>>)
  /\ [][/\ response # NoResponse => response' = response
        /\ pc \in TryStages =>
             \/ pc' \in TryStages /\ response' = NoResponse
             \/ pc' = "done" /\ response'.status = (IF pc = "respond" THEN 200 ELSE 500)]_vars

\* C17 witness: the production order was built, the quotation emitter
\* failed, and the request was answered with 500 and no workbook.
C17_Witness ==
  /\ pc = "done" /\ response.status = 500 /\ response.error = MsgType
  /\ prodBuf.ok /\ ~quoteBuf.ok
  /\ ~response.prod /\ ~response.quote

\* C17 witness: an error without a message was answered with the fallback
\* message.
C17_WitnessFallback ==
  pc = "done" /\ response = ErrorResponse(500, MsgFallback)

\* C18 -- Unconditional cleanup.  Every request that created its session
\* directory and has left POST, by an answer or by an error thrown while the
\* uploads were being written, has the deletion of the directory scheduled.
C18_UnconditionalCleanup ==
  (sessionDir /\ pc \in {"done", "crashed"}) => cleanup

\* the image minimum of both emitters
ImageMinimum == 80

AtLeastMinimum(h) == h.t = "num" /\ NumVal(h.s) >= ImageMinimum

\* C19 -- Minimum row height for embedded images.  In both emitted
\* workbooks every row that carries an image has a height of at least 80.
C19_ImageRowMinimumHeight ==
  /\ prodBuf.ok =>
       \A i \in 1..Len(prodBuf.rows) :
         prodBuf.rows[i].image # NoImage => AtLeastMinimum(prodBuf.rows[i].height)
  /\ quoteBuf.ok =>
       \A i \in 1..Len(quoteBuf.rows) :
         quoteBuf.rows[i].image # NoImage => AtLeastMinimum(quoteBuf.rows[i].height)

\* C19, production order alone: the same statement for buildProductionOrder.
C19_ProductionRowMinimumHeight ==
  prodBuf.ok =>
    \A i \in 1..Len(prodBuf.rows) :
      prodBuf.rows[i].image # NoImage => AtLeastMinimum(prodBuf.rows[i].height)

\* C20 -- Absent image is not an error.  A row whose image reference is
\* empty or has no bytes in the image map is emitted with all its cell
\* values, without an image and at its default height: the item's height in
\* the production order, 18 in the quotation.  Whether an emitter fails
\* does not depend on the image map.
C20_AbsentImageIsNoError ==
  /\ [](prodBuf.ok =>
          /\ Len(prodBuf.rows) = Length(layout)
          /\ \A i \in 1..Len(prodBuf.rows) :
               LET item == layout.kids[i]
                   ref == At(Get(item, kData), 1)
                   row == prodBuf.rows[i]
               IN (\/ Get(item, kType) # TableDataRow
                   \/ ~Truthy(ref)
                   \/ String(ref) \notin imageMap)
                    => /\ row.image = NoImage
                       /\ row.height = Get(item, kHeight)
                       /\ Get(item, kType) \in {TableHeaderRow, TableDataRow} =>
                            row.values = (IF Truthy(Get(item, kHeaders))
                                          THEN Get(item, kHeaders)
                                          ELSE Get(item, kData)))
  /\ [](quoteBuf.ok =>
          /\ Len(quoteBuf.rows) = Length(Get(quotation, kProducts))
          /\ \A i \in 1..Len(quoteBuf.rows) :
               LET product == Get(quotation, kProducts).kids[i]
                   ref == IF Truthy(Get(product, kImg)) THEN Get(product, kImg)
                          ELSE Get(product, kName)
                   row == quoteBuf.rows[i]
               IN String(ref) \notin imageMap
                    => /\ row.image = NoImage
                       /\ row.height = JNum(<<"1", "8">>)
                       /\ Length(row.values) = 9
                       /\ At(row.values, 0) = Get(product, kSeq)
                       /\ At(row.values, 1) = Get(product, kImg)
                       /\ At(row.values, 2) = Get(product, kName)
                       /\ At(row.values, 3) = Get(product, kSurface)
                       /\ At(row.values, 4) = Get(product, kMaterial)
                       /\ At(row.values, 5) = Get(product, kQty)
                       /\ At(row.values, 8) = Get(product, kNotes))
  /\ [][/\ pc = "production" =>
             (pc' = "quotation") = buildProductionOrder(layout, {}).ok
        /\ pc = "quotation" =>
             (pc' = "respond") = buildQuotation(quotation, {}, Undef).ok]_vars

\* C20 witness: a request answered with 200 whose production order has a
\* data row naming a key without bytes in the image map, emitted without an
\* image at the item's height, and whose quotation has a product row without
\* an image at height 18.
C20_Witness ==
  /\ pc = "done" /\ response.status = 200
  /\ \E i \in 1..Len(prodBuf.rows) :
       /\ Get(layout.kids[i], kType) = TableDataRow
       /\ Truthy(At(Get(layout.kids[i], kData), 1))
       /\ String(At(Get(layout.kids[i], kData), 1)) \notin imageMap
       /\ prodBuf.rows[i].image = NoImage
       /\ prodBuf.rows[i].height = JNum(<<"2", "2">>)
  /\ \E i \in 1..Len(quoteBuf.rows) :
       /\ quoteBuf.rows[i].image = NoImage
       /\ quoteBuf.rows[i].height = JNum(<<"1", "8">>)

\* the rows of the two emitted workbooks on which the bytes under key k
\* were embedded
EmbeddedOn(k) ==
  {<<"production", i>> : i \in {j \in 1..Len(prodBuf.rows) : prodBuf.rows[j].image = k}}
  \cup {<<"quotation", i>> : i \in {j \in 1..Len(quoteBuf.rows) : quoteBuf.rows[j].image = k}}

\* C21 -- Rendered image consumed exactly once.  Within one request the
\* bytes under each key of the image map are embedded on at most one row
\* over both emitted workbooks.
C21_ImageConsumedOnce ==
  \A k \in imageMap : Cardinality(EmbeddedOn(k)) <= 1

\* the requests that hold a session: started, and not yet cleaned up
InFlight == {r \in Requests : sess[r].pc \in {"file", "stp", "try", "answered"}}

\* C22, first part: two requests in flight have different session identifiers
C22_DistinctSlugs ==
  \A r, q \in InFlight : r # q => sess[r].slug # sess[q].slug

\* C22, second part: every file a request wrote lies in its own session
\* directory
C22_FilesUnderOwnDirectory ==
  \A f \in files :
    f.by \in InFlight => Len(f.path) = 2 /\ f.path[1] = sess[f.by].slug

\* C22, third part: from the moment a request has written its spreadsheet
\* until its cleanup, its upPath holds that spreadsheet, and what the request
\* read there is its own spreadsheet
C22_SpreadsheetKept ==
  \A r \in Requests :
    /\ sess[r].pc \in {"stp", "try", "answered"} =>
         [path |-> <<sess[r].slug, "spec.xlsx">>, by |-> r, what |-> "xlsx"] \in files
    /\ sess[r].got # <<>> => sess[r].got = <<r, "xlsx">>

\* C22, all parts together
C22_SessionIsolationWhole ==
  /\ C22_DistinctSlugs
  /\ C22_FilesUnderOwnDirectory
  /\ C22_SpreadsheetKept

\* C22 -- Session isolation under concurrency.  When the session
\* identifiers of the requests differ, every file a request wrote lies in
\* its own session directory, and a request's spreadsheet is neither
\* overwritten by another upload of the same or of another request nor
\* deleted by another request's cleanup while the request is in flight.
C22_SessionIsolation ==
  (\A r, q \in Requests : r # q /\ sess[r].slug # "" => sess[r].slug # sess[q].slug)
    => C22_FilesUnderOwnDirectory /\ C22_SpreadsheetKept

\* the path lies inside the converted-images directory of the slug: it is
\* that directory followed by further segments
InsideSlugDirectory(path, slug) ==
  /\ Len(Split(slug)) = 1 /\ slug \notin {<<>>, <<".">>, <<"..">>}
  /\ Len(path) > Len(CONVERTED_IMAGES_DIR) + 1
  /\ SubSeq(path, 1, Len(CONVERTED_IMAGES_DIR) + 1) = CONVERTED_IMAGES_DIR \o <<slug>>

\* C23 -- Image-serving confinement.  A file is read and served only if the
\* file name ends with ".png" and its resolved path lies inside the
\* converted-images directory of the slug.
C23_ImageServingConfinement ==
  imgResp.status = 200 =>
    /\ endsWith(imgName, <<".png">>)
    /\ imgResp.served = JoinUnderImages(<<imgSlug, imgName>>)
    /\ InsideSlugDirectory(imgResp.served, imgSlug)

\* C23, the answers: a request whose path resolves outside that directory
\* is answered with 403, one with an empty slug or file name with 404.
C23_ElsewhereForbidden ==
  imgPc = "done" =>
    /\ (imgSlug = <<>> \/ imgName = <<>>) => imgResp.status = 404
    /\ (/\ imgSlug # <<>> /\ imgName # <<>>
        /\ ~InsideSlugDirectory(JoinUnderImages(<<imgSlug, imgName>>), imgSlug))
         => imgResp.status = 403

\* the lower-cased names of the files for which the renderer gave an image
RenderedNames == {toLowerCase(stpInfo[i]) : i \in renderOk}

\* the file names reconciliation wrote: the image fields of the reconciled
\* documents that differ from what the completion gave
WrittenByReconciliation ==
  {At(Get(layout.kids[i], kData), 1).s :
     i \in {j \in 1..Length(layout) :
              /\ Get(layout.kids[j], kType) = TableDataRow
              /\ Get(layout.kids[j], kData).t = "arr"
              /\ At(Get(layout.kids[j], kData), 1)
                   # At(Get(denoted[1].kids[j], kData), 1)}}
  \cup (IF Get(quotation, kProducts).t # "arr" THEN {}
        ELSE {Get(Get(quotation, kProducts).kids[i], kImg).s :
                i \in {j \in 1..Length(Get(quotation, kProducts)) :
                         Get(Get(quotation, kProducts).kids[j], kImg)
                           # Get(Get(denoted[2], kProducts).kids[j], kImg)}})

\* C24 -- Reconciliation candidates are rendered files.  With the renderer
\* configured, once rendering is over every file name reconciliation wrote
\* into a layout row or a product line is the name of a file for which the
\* renderer produced an image.
C24_CandidatesAreRendered ==
  (/\ route = "text" /\ PYTHON_RENDERER_URL
   /\ pc \in {"production", "quotation", "respond"})
    => WrittenByReconciliation \subseteq RenderedNames

\* C25 -- Literal location is bracket-matched.  For a completion that
\* carries both literals, what extractStructures captures for each name is
\* the text of the literal assigned to it, from its opening bracket to the
\* bracket that closes it, whatever the strings inside the literal hold.
C25_LiteralBracketMatched ==
  (pc \in {"extract", "parse"} /\ denoted # <<>>) =>
    \E st \in Styles :
      /\ rawOutput = Render(denoted[1], denoted[2], st)
      /\ extractStructures(rawOutput).found
      /\ extractStructures(rawOutput).arrCap = Ser(denoted[1], st, 0)
      /\ extractStructures(rawOutput).objCap = Ser(denoted[2], st, 0)

\* the product rows lie, one per product and in the order of the products,
\* between the table header and the totals row
ProductRowsInOrder ==
  LET n == Length(Get(quotation, kProducts))
  IN /\ Len(quoteBuf.rows) = n
     /\ \A i \in 1..n : quoteBuf.numbers[i] = quoteBuf.header + i
     /\ quoteBuf.total = quoteBuf.header + n + 1

\* the nine fields of a product line in the order of the schema
SchemaKeys ==
  <<kSeq, kImg, kName, kSurface, kMaterial, kQty, kPrice, kTotal, kNotes>>

\* C26 as stated -- Quotation schema fidelity.  One row per product line,
\* in the order of the products, between the table header and the totals
\* row, and the nine cells of the row carry the nine fields of the product
\* line in schema order, unit price and line total included (compared
\* only where the product line has the field).
C26_NineFieldsInSchemaOrder ==
  quoteBuf.ok =>
    /\ ProductRowsInOrder
    /\ \A i \in 1..Len(quoteBuf.rows) :
         LET product == Get(quotation, kProducts).kids[i]
             cells == quoteBuf.rows[i].values
         IN /\ \A c \in {0, 1, 2, 3, 4, 5, 8} :
                 At(cells, c) = Get(product, SchemaKeys[c + 1])
            /\ \A c \in {6, 7} :
                 Has(product, SchemaKeys[c + 1]) =>
                   At(cells, c) = Get(product, SchemaKeys[c + 1])

\* C26 -- Quotation schema fidelity.  One row per product line, in the
\* order of the products, between the table header and the totals row;
\* cells 1 to 6 and 9 carry sequence number, image key, part name, surface
\* treatment, material, quantity and notes of the product line, and cells 7
\* and 8 (unit price, line total) are always the empty string.
C26_SevenFieldsAndBlankPrices ==
  quoteBuf.ok =>
    /\ ProductRowsInOrder
    /\ \A i \in 1..Len(quoteBuf.rows) :
         LET product == Get(quotation, kProducts).kids[i]
         IN quoteBuf.rows[i].values =
              JArr(<<Get(product, kSeq), Get(product, kImg), Get(product, kName),
                     Get(product, kSurface), Get(product, kMaterial),
                     Get(product, kQty), JStr(<<>>), JStr(<<>>),
                     Get(product, kNotes)>>)

\* C26 witness: a quotation of two different product lines, the second with
\* a unit price, was emitted as two rows below the header and answered.
C26_Witness ==
  /\ pc = "done" /\ response.status = 200
  /\ Len(quoteBuf.rows) = 2
  /\ quoteBuf.numbers = <<9, 10>> /\ quoteBuf.total = 11
  /\ At(quoteBuf.rows[1].values, 2) = JStr(<<"p">>)
  /\ Get(Get(quotation, kProducts).kids[2], kPrice) = JStr(<<"9">>)
  /\ At(quoteBuf.rows[2].values, 6) = JStr(<<>>)

\* an identifier that is the empty string, null, or not there at all
EmptyIdentifier(v) == v \in {JStr(<<>>), JNull, Undef}

\* a first upload whose name is not the empty string
FirstUploadNamed == stpInfo # <<>> /\ stpInfo[1] # <<>>

\* C27 as stated -- Empty identifier matches everything.  A layout data row
\* whose part-number field (index 2) is empty, null or missing, and a
\* product line whose part name is empty or missing, has its image field
\* overwritten with the (lower-cased) name of the first uploaded CAD file
\* whenever a file was uploaded, and keeps its value only when none was.
C27_EmptyIdentifierMatchesEverything ==
  (pc \in {"render", "production", "quotation", "respond"}
   /\ (stpInfo = <<>> \/ FirstUploadNamed)) =>
    LET parsedL == JSONParse(arrJS).v
        parsedQ == JSONParse(objJS).v
        expected(old) ==
          IF stpInfo = <<>> THEN old ELSE JStr(toLowerCase(stpInfo[1]))
    IN /\ \A i \in 1..Length(parsedL) :
            LET d == Get(parsedL.kids[i], kData)
            IN (/\ Get(parsedL.kids[i], kType) = TableDataRow
                /\ d.t = "arr"
                /\ Length(d) > 1
                /\ EmptyIdentifier(IF Length(d) > 2 THEN At(d, 2) ELSE Undef))
               => At(Get(layout.kids[i], kData), 1) = expected(At(d, 1))
       /\ Get(parsedQ, kProducts).t = "arr" =>
            \A i \in 1..Length(Get(parsedQ, kProducts)) :
              LET p == Get(parsedQ, kProducts).kids[i]
              IN EmptyIdentifier(Get(p, kName))
                 => Get(Get(quotation, kProducts).kids[i], kImg)
                      = expected(Get(p, kImg))

\* C27 -- Empty identifier matches everything.  A layout data row of more
\* than two values whose part-number field (index 2) is empty or null, and
\* a product line whose part name is empty or missing, has its image field
\* overwritten with the lower-cased name of the first uploaded CAD file when
\* that name is not empty; it keeps its value when no file was uploaded or
\* the first name is empty.  A data row of at most two values is never
\* touched.
C27_EmptyIdentifierTakesFirstNamedUpload ==
  pc \in {"render", "production", "quotation", "respond"} =>
    LET parsedL == JSONParse(arrJS).v
        parsedQ == JSONParse(objJS).v
        expected(old) ==
          IF FirstUploadNamed THEN JStr(toLowerCase(stpInfo[1])) ELSE old
    IN /\ \A i \in 1..Length(parsedL) :
            LET d == Get(parsedL.kids[i], kData)
            IN /\ (/\ Get(parsedL.kids[i], kType) = TableDataRow
                   /\ d.t = "arr"
                   /\ Length(d) > 2
                   /\ EmptyIdentifier(At(d, 2)))
                  => At(Get(layout.kids[i], kData), 1) = expected(At(d, 1))
               /\ (d.t = "arr" /\ Length(d) <= 2)
                  => layout.kids[i] = parsedL.kids[i]
       /\ Get(parsedQ, kProducts).t = "arr" =>
            \A i \in 1..Length(Get(parsedQ, kProducts)) :
              LET p == Get(parsedQ, kProducts).kids[i]
              IN EmptyIdentifier(Get(p, kName))
                 => Get(Get(quotation, kProducts).kids[i], kImg)
                      = expected(Get(p, kImg))

\* C27 witness: the row's part number is null and the product has no part
\* name; both image fields took the lower-cased name of the first upload.
C27_Witness ==
  /\ pc = "render"
  /\ stpInfo = <<<<"P", "1">>, <<"p", "1", "x">>>>
  /\ Length(layout) = 1
  /\ At(Get(layout.kids[1], kData), 2) = JNull
  /\ At(Get(layout.kids[1], kData), 1) = JStr(<<"p", "1">>)
  /\ \E i \in 1..Length(Get(quotation, kProducts)) :
       /\ ~Has(Get(quotation, kProducts).kids[i], kName)
       /\ Get(Get(quotation, kProducts).kids[i], kImg) = JStr(<<"p", "1">>)

\* C27 witness: a data row of two values kept its image field although a
\* named file was uploaded.
C27_WitnessShortRow ==
  /\ pc = "render"
  /\ FirstUploadNamed
  /\ Length(layout) = 1
  /\ Length(Get(layout.kids[1], kData)) = 2
  /\ At(Get(layout.kids[1], kData), 1) = JStr(<<>>)

\* C28 -- ExcelViewer pipeline state.  After runPipeline starts, processing
\* eventually returns to false, whatever the outcome of the request
\* (success, failure status, rejected fetch, unparsable body).
C28_ProcessingReturns == xlsView.processing ~> ~xlsView.processing

\* C28, second part: while processing no second request starts from the
\* viewer.
C28_NoSecondRequest ==
  [][xlsView'.runs # xlsView.runs => ~xlsView.processing]_vars

\* C28, third part: the two download links are non-null only after a
\* success response of the most recent run.
C28_LinksOnlyAfterSuccess ==
  (xlsView.prodLink # NoLink \/ xlsView.quoteLink # NoLink) =>
    /\ xlsView.prodLink = b64ToBlobURL(xlsView.runs, "production")
    /\ xlsView.quoteLink = b64ToBlobURL(xlsView.runs, "quotation")
    /\ xlsView.res.ok /\ xlsView.res.json /\ xlsView.raw = xlsView.res.body
    /\ xlsView.at = "idle"

\* every request of the viewer has been answered
PptQuiet == \A n \in 1..Len(pptView.effects) : pptView.effects[n].at = "done"
StpQuiet == \A n \in 1..Len(stpView.effects) : stpView.effects[n].at = "done"

\* C29, PowerPointViewer: once all requests are answered the slides shown
\* are those of the file the viewer has now.
C29_SlidesOfLatestFile ==
  (PptQuiet /\ ~pptView.loading /\ pptView.error = NoError)
    => pptView.slides = SlidesOf(pptView.file)

\* C29, StpViewer: once all requests are answered the images shown were
\* made by the request for the file the viewer has now.
C29_ImagesOfLatestFile ==
  (StpQuiet /\ stpView.imageUrls # {})
    => \A u \in stpView.imageUrls : u.n = Len(stpView.effects)

\* C29, StpViewer: no object URL made by a superseded request stays
\* unrevoked once that request is over.
C29_SupersededUrlsRevoked ==
  \A n \in 1..Len(stpView.effects) :
    (stpView.effects[n].cleaned /\ stpView.effects[n].at = "done")
      => \A u \in stpView.live : u.n # n

\* C29 -- No stale results in async viewers.  When the file prop of
\* PowerPointViewer or StpViewer changes while an earlier conversion is in
\* flight, what is displayed in the end belongs to the most recent file,
\* and the object URLs of a superseded StpViewer request are all revoked.
C29_NoStaleResults ==
  /\ C29_SlidesOfLatestFile
  /\ C29_ImagesOfLatestFile
  /\ C29_SupersededUrlsRevoked

\* C30 -- Client/server agreement.  Every file the upload page takes for a
\* spreadsheet and hands to ExcelViewer passes the validation of the route:
\* the request of the viewer is never answered with the 400 "Invalid file".
C30_ClientServerAgreement ==
  (getUploadedItemType(xlsView.file) = "excel" /\ xlsView.at = "response")
    => xlsView.res # InvalidFile

====
